---- MODULE Spec2Model ----
(***************************************************************************)
(* Verification model of the F1Data chart routines (functions.py and       *)
(* interface.py).  Each chart routine is a small state machine: a loop     *)
(* over drivers (or items) whose body is one action, followed by the       *)
(* rendering step.  Numerical routines are operators computed the way the  *)
(* code computes them, in exact arithmetic: a mean is the fraction         *)
(* num/den, a percentile is kept multiplied by 4, and the race-history lap *)
(* durations are fixed-point numbers with Scale units per second.  The     *)
(* winner's line of the race history is modelled a second time in a        *)
(* rounding floating-point arithmetic of FloatBits significant bits.       *)
(***************************************************************************)
EXTENDS Integers, Sequences, FiniteSets, TLC

(***************************************************************************)
(* Bounds of the model.                                                    *)
(***************************************************************************)
MaxLaps == 5
MaxLap == 4
MaxWinnerLap == 1
MaxRaceLap == 3
MaxRequests == 2
MaxStintLen == 6
MaxTimedLaps == 4
MaxRaceCount == 7
MaxSeasonRaces == 3
MaxTestLap == 7
MaxExports == 2
MaxFloatLaps == 4
FloatBits == 3

\* race.results['Abbreviation']: the drivers of the session, winner first
Drivers == <<"VER", "HAM">>

NumDrivers == Len(Drivers)

(***************************************************************************)
(* State.                                                                  *)
(***************************************************************************)
\* functions.plot_mean_lap_time
VARIABLES
    mean_pc,          \* "loop" while the driver loop runs, "done" once the chart is drawn
    mean_i,           \* index into drivers of the next driver of the loop
    lap_times,        \* lap_times of the last iteration (seconds of the quick laps)
    raised,           \* the last iteration ended in its except clause
    mean_lap_times,   \* dict driver -> mean lap time
    driver_info,      \* dict driver -> LapCount
    sorted_drivers,   \* the drivers charted, in bar order
    fastest_time      \* the origin of the gap axis; nan while there is no gap axis

meanVars == <<mean_pc, mean_i, lap_times, raised, mean_lap_times,
              driver_info, sorted_drivers, fastest_time>>

\* plot_race_history of functions.py and of interface.py
VARIABLES
    hist_impl,           \* which of the two routines runs: "functions" or "interface"
    hist_pc,             \* "start", "loop" (the driver loop), "done" or "team_pace"
    hist_i,              \* index into drivers of the next driver of the loop
    session_laps,        \* session.laps: driver -> laps in lap order, each [LapNumber, LapTime]
    winner_time,         \* session.results['Time'].iloc[0], NaN when it is NaT
    reference_lap_time,  \* the reference pace, a fraction of Scale units
    plotted,             \* driver -> what the iteration computed and drew for the driver
    transformed_laps     \* plot_team_pace_comparison: the copy of the quick laps it charts

histVars == <<hist_impl, hist_pc, hist_i, session_laps, winner_time,
              reference_lap_time, plotted, transformed_laps>>

\* functions.analyze_overtakes
VARIABLES
    ov_pc,           \* "start", "grid" (lines 943-957), "fill", "render", "done" or "raised"
    ov_i,            \* index into drivers of the next driver of the grid loop
    ov_laps,         \* race.laps: driver -> laps in lap order, each [LapNumber, Position]
    overtakes_grid,  \* driver -> row of the grid, one cell per lap
    ov_lines,        \* the drivers whose position line is drawn
    ov_markers       \* the position-change markers drawn

ovVars == <<ov_pc, ov_i, ov_laps, overtakes_grid, ov_lines, ov_markers>>

\* interface.F1StatsApp.open_analysis_window and its handler on_analyze
VARIABLES
    an_pc,              \* "idle", or the step on_analyze is about to take
    analysis_function,  \* the routine the dialog was opened for
    year_entry,         \* text of the year field
    testing_entry,      \* text of the testing field, as its split() tokens
    details_window,     \* "open" or "destroyed"
    progress_bar,       \* progress in tenths: 0, 1, 3, 7, 10
    status_label,       \* text of the dialog's status label
    main_status,        \* text of the status bar of the main window
    an_session,         \* "none", "obtained" (not loaded) or "loaded"
    an_steps,           \* the steps the running or last request has completed
    invoked_with,       \* the an_session the analysis function last received
    close_scheduled,    \* an after(1000, destroy) timer is pending
    requests            \* the number of Analyze requests started

anVars == <<an_pc, analysis_function, year_entry, testing_entry, details_window,
            progress_bar, status_label, main_status, an_session, an_steps,
            invoked_with, close_scheduled, requests>>

\* functions.analyze_long_runs
VARIABLES
    lr_pc,          \* "start", "loop" (the loop over the long stints) or "done"
    lr_i,           \* index into long_stints of the next stint of the loop
    lr_stints,      \* driver_laps.groupby('Stint'): the stints, each its laps in order
    long_stints,    \* the indices into lr_stints of the stints of at least 5 laps
    lr_drawn        \* stint index -> what the loop drew for the stint

lrVars == <<lr_pc, lr_i, lr_stints, long_stints, lr_drawn>>

\* functions.plot_lap_times
VARIABLES
    lt_pc,          \* "loop" (a driver loop) or "done"
    lt_chart,       \* 1 for the chart of lines 196-284, 2 for that of lines 291-372
    lt_i,           \* index into lt_drivers of the next driver of the loop
    lt_drivers,     \* the drivers argument: indices into Drivers, in the order given
    lt_laps,        \* session.laps: driver -> the LapTime of each lap, in lap order
    all_lap_times,  \* the list of this name
    lt_lines,       \* <<chart, driver>> -> the lap numbers and lap times of the line drawn
    lt_markers      \* the fastest-lap markers drawn: [chart, driver, lap_number, lap_time]

ltVars == <<lt_pc, lt_chart, lt_i, lt_drivers, lt_laps, all_lap_times, lt_lines,
            lt_markers>>

\* functions.analyze_team_development
VARIABLES
    td_pc,           \* "start", "loop" (the loop over the selected races) or "done"
    race_count,      \* len(races): the number of races of the season's schedule
    selected_races,  \* the schedule indices (from 0) of the selected races, in order
    td_i,            \* the enumerate index of the next selected race, from 0
    td_session,      \* the qualifying session of the last iteration; loaded or not
    team_data,       \* team -> times: one entry for every selected race
    normalized_data  \* team -> the percentages plotted

tdVars == <<td_pc, race_count, selected_races, td_i, td_session, team_data,
            normalized_data>>

\* compare_teammates (src/functions.py, lines 1216-1431)
VARIABLES
    tm_pc,            \* "idle", "loop", "returned" (no race stored) or "shown"
    tm_races,         \* the number of rows of the race schedule (rounds 1..n)
    tm_round,         \* the round of the next schedule row
    tm_sessions,      \* the two sessions of the last iteration; loaded or not
    race_names,       \* the stored races (identified by their round), in order
    qualifying_data,  \* teammate -> qualifying positions, one for every stored race
    race_data,        \* teammate -> race positions, one for every stored race
    h2h_quali,        \* teammate -> qualifying wins
    h2h_race          \* teammate -> race wins

tmVars == <<tm_pc, tm_races, tm_round, tm_sessions, race_names, qualifying_data,
            race_data, h2h_quali, h2h_race>>

\* plot_testing_pace (src/interface.py, lines 800-1000)
VARIABLES
    tp_pc,           \* "idle", "fastest", "count", "stints" or "shown"
    testing_laps,    \* session.laps: driver -> the lap numbers of the driver's laps
    entered_drivers, \* the driver codes split from the dialog's entry (the argument)
    tp_drivers,      \* the local name drivers of the routine
    tp_fastest_laps, \* the drivers with an entry in fastest_laps (tab 1)
    sorted_by_laps,  \* the (driver, lap count) items of tab 2, in chart order
    tp_i,            \* the index of the next driver of the stint loop, from 1
    tp_stints        \* driver -> the stints kept, each a sequence of lap numbers

tpVars == <<tp_pc, testing_laps, entered_drivers, tp_drivers, tp_fastest_laps,
            sorted_by_laps, tp_i, tp_stints>>

\* export_data_to_csv and its perform_export (src/interface.py, lines 1141-1302)
VARIABLES
    ex_pc,         \* "idle", "ready", "collect", "car_data", "export"
    ex_runs,       \* the number of clicks on the export button so far
    ex_session,    \* the tables of the session and the car data of its drivers
    ex_drivers,    \* the drivers argument
    export_vars,   \* the keys whose checkbox is selected
    export_items,  \* the (key, data) items of the running export
    ex_i,          \* the index of the next driver or item of the running loop, from 1
    ex_written,    \* the keys of the files the running export has written, in order
    progress_var,  \* the value of the progress bar, a fraction
    export_status  \* the text of the status label

exVars == <<ex_pc, ex_runs, ex_session, ex_drivers, export_vars, export_items,
            ex_i, ex_written, progress_var, export_status>>

\* plot_race_history (src/functions.py, lines 374-449) for the winner, in
\* floating-point arithmetic
VARIABLES
    wd_pc,          \* "idle", "start", "loop" or "done"
    wd_laps,        \* the LapTime column of the winner's laps, in seconds
    wd_race_time,   \* session.results['Time'].iloc[0], in seconds
    wd_reference,   \* reference_lap_time
    wd_lap_times,   \* lap_times of the winner's iteration after the filter
    wd_delta        \* delta_times of the winner's iteration

wdVars == <<wd_pc, wd_laps, wd_race_time, wd_reference, wd_lap_times, wd_delta>>

vars ==
    <<meanVars, histVars, ovVars, anVars, lrVars, ltVars, tdVars,
      tmVars, tpVars, exVars, wdVars>>

\* A routine changes the state of no other routine.
MeanFrame ==
    UNCHANGED <<histVars, ovVars, anVars, lrVars, ltVars, tdVars, tmVars,
                tpVars, exVars, wdVars>>

HistFrame ==
    UNCHANGED <<meanVars, ovVars, anVars, lrVars, ltVars, tdVars, tmVars,
                tpVars, exVars, wdVars>>

OvFrame ==
    UNCHANGED <<meanVars, histVars, anVars, lrVars, ltVars, tdVars, tmVars,
                tpVars, exVars, wdVars>>

AnFrame ==
    UNCHANGED <<meanVars, histVars, ovVars, lrVars, ltVars, tdVars, tmVars,
                tpVars, exVars, wdVars>>

LrFrame ==
    UNCHANGED <<meanVars, histVars, ovVars, anVars, ltVars, tdVars, tmVars,
                tpVars, exVars, wdVars>>

LtFrame ==
    UNCHANGED <<meanVars, histVars, ovVars, anVars, lrVars, tdVars, tmVars,
                tpVars, exVars, wdVars>>

TdFrame ==
    UNCHANGED <<meanVars, histVars, ovVars, anVars, lrVars, ltVars, tmVars,
                tpVars, exVars, wdVars>>

TmFrame ==
    UNCHANGED <<meanVars, histVars, ovVars, anVars, lrVars, ltVars, tdVars,
                tpVars, exVars, wdVars>>

TpFrame ==
    UNCHANGED <<meanVars, histVars, ovVars, anVars, lrVars, ltVars, tdVars,
                tmVars, exVars, wdVars>>

ExFrame ==
    UNCHANGED <<meanVars, histVars, ovVars, anVars, lrVars, ltVars, tdVars,
                tmVars, tpVars, wdVars>>

WdFrame ==
    UNCHANGED <<meanVars, histVars, ovVars, anVars, lrVars, ltVars, tdVars,
                tmVars, tpVars, exVars>>

(***************************************************************************)
(* Lap durations.  A missing duration (NaT, NaN after total_seconds()) is  *)
(* the value NaN; a present one carries its number of seconds.             *)
(***************************************************************************)
NaN == [nan |-> TRUE, v |-> 0]

Num(x) == [nan |-> FALSE, v |-> x]

IsNaN(t) == t.nan

(***************************************************************************)
(* Generic helpers on sequences.                                           *)
(***************************************************************************)
Range(s) == {s[i] : i \in 1..Len(s)}

RECURSIVE SumSeq(_)
SumSeq(s) == IF s = <<>> THEN 0 ELSE s[1] + SumSeq(Tail(s))

MinOfSet(S) == CHOOSE x \in S : \A y \in S : x <= y

MaxOfSet(S) == CHOOSE x \in S : \A y \in S : y <= x

RECURSIVE SeqsUpTo(_, _)
SeqsUpTo(S, n) ==
    IF n = 0 THEN {<<>>}
    ELSE LET shorter == SeqsUpTo(S, n - 1)
         IN  shorter \cup {Append(s, x) : s \in {t \in shorter : Len(t) = n - 1}, x \in S}

\* np.sort: ascending insertion of each element
RECURSIVE Insert(_, _)
Insert(x, s) ==
    IF s = <<>> THEN <<x>>
    ELSE IF x <= s[1] THEN <<x>> \o s
    ELSE <<s[1]>> \o Insert(x, Tail(s))

RECURSIVE Sort(_)
Sort(s) == IF s = <<>> THEN <<>> ELSE Insert(s[1], Sort(Tail(s)))

(***************************************************************************)
(* Fractions.  np.mean of a float array is the fraction sum/len; the mean  *)
(* of an empty array is nan, here the fraction with den = 0.               *)
(***************************************************************************)
Frac(n, d) == [num |-> n, den |-> d]

Zero == Frac(0, 1)

FracIsNaN(a) == a.den = 0

FracLess(a, b) == a.den > 0 /\ b.den > 0 /\ a.num * b.den < b.num * a.den

FracPositive(a) == a.den > 0 /\ a.num > 0

np_mean(s) == Frac(SumSeq(s), Len(s))

(***************************************************************************)
(* np.percentile(a, q) with the default linear interpolation, for q = 25   *)
(* (quarter = 1) and q = 75 (quarter = 3): the virtual index is            *)
(* (n-1)*q/100 into the sorted array; the result is returned times 4.      *)
(***************************************************************************)
Percentile4(a, quarter) ==
    LET s    == Sort(a)
        pos  == (Len(a) - 1) * quarter
        lo   == (pos \div 4) + 1
        frac == pos % 4
    IN  IF frac = 0 THEN 4 * s[lo]
        ELSE 4 * s[lo] + frac * (s[lo + 1] - s[lo])

(***************************************************************************)
(* functions.plot_mean_lap_time                                            *)
(***************************************************************************)
\* the lap durations a session can hold for one lap of the mean-lap-time chart
SessionLapTimes == {NaN, Num(90), Num(96), Num(120)}

\* Laps.pick_quicklaps(): the laps whose LapTime is below 107 % of the
\* driver's fastest lap time; a lap without a time passes no comparison.
PickQuicklaps(laps) ==
    LET timed == {laps[i].v : i \in {j \in 1..Len(laps) : ~IsNaN(laps[j])}}
    IN  IF timed = {} THEN <<>>
        ELSE SelectSeq(laps, LAMBDA t : ~IsNaN(t) /\ 100 * t.v < 107 * MinOfSet(timed))

\* driver_laps['LapTime'].dt.total_seconds().values
TotalSeconds(laps) == [i \in 1..Len(laps) |-> laps[i].v]

\* lap_times[(lap_times >= q1 - 1.5 * iqr) & (lap_times <= q3 + 1.5 * iqr)],
\* every term multiplied by 8
IqrFilterStrict(times) ==
    LET q1  == Percentile4(times, 1)
        q3  == Percentile4(times, 3)
        iqr == q3 - q1
    IN  SelectSeq(times, LAMBDA t : 8 * t > 2 * q1 - 3 * iqr /\ 8 * t < 2 * q3 + 3 * iqr)

IqrFilter(times) ==
    LET q1  == Percentile4(times, 1)
        q3  == Percentile4(times, 3)
        iqr == q3 - q1
    IN  SelectSeq(times, LAMBDA t : 8 * t >= 2 * q1 - 3 * iqr /\ 8 * t <= 2 * q3 + 3 * iqr)

\* the mean lap time of one driver, lines 109-118
MeanLapTimeNoGuard(times) ==
    IF Len(times) > 3
    THEN LET filtered_times == IqrFilter(times)
         IN  IF Len(filtered_times) > 0 THEN np_mean(filtered_times) ELSE np_mean(times)
    ELSE np_mean(times)

MeanLapTimeUnfiltered(times) ==
    IF Len(times) > 0 THEN np_mean(times) ELSE Zero

MeanLapTime(times) ==
    IF Len(times) > 3
    THEN LET filtered_times == IqrFilter(times)
         IN  IF Len(filtered_times) > 0 THEN np_mean(filtered_times) ELSE np_mean(times)
    ELSE IF Len(times) > 0 THEN np_mean(times) ELSE Zero

\* lines 176-180: format_gap(x, pos) for a tick at x = a / b seconds
FormatGap(x, fastest) ==
    IF x.num * fastest.den = fastest.num * x.den THEN "Leader" ELSE "+gap"

\* the drivers kept in dict order, without sorting
InsertDriverLast(d, s, means) == Append(s, d)

\* sorted([d for d in mean_lap_times if mean_lap_times[d] > 0], key=...):
\* a stable ascending sort of the drivers in dict (insertion) order
RECURSIVE InsertDriver(_, _, _)
InsertDriver(d, s, means) ==
    IF s = <<>> THEN <<d>>
    ELSE IF FracLess(means[d], means[s[1]]) THEN <<d>> \o s
    ELSE <<s[1]>> \o InsertDriver(d, Tail(s), means)

RECURSIVE SortedDrivers(_, _)
SortedDrivers(n, means) ==
    IF n = 0 THEN <<>>
    ELSE LET rest == SortedDrivers(n - 1, means)
         IN  IF n \in DOMAIN means /\ FracPositive(means[n])
             THEN InsertDriver(n, rest, means)
             ELSE rest

MeanIdle ==
    /\ mean_pc = "idle"
    /\ mean_i = 0
    /\ lap_times = <<>>
    /\ raised = FALSE
    /\ mean_lap_times = <<>>
    /\ driver_info = <<>>
    /\ sorted_drivers = <<>>
    /\ fastest_time = Frac(0, 0)

\* lines 86-94: the state before the driver loop
MeanInit ==
    /\ mean_pc = "loop"
    /\ mean_i = 1
    /\ lap_times = <<>>
    /\ raised = FALSE
    /\ mean_lap_times = <<>>
    /\ driver_info = <<>>
    /\ sorted_drivers = <<>>
    /\ fastest_time = Frac(0, 0)

\* lines 96-122: one iteration of the driver loop that reaches line 122
MeanProcessDriver ==
    /\ mean_pc = "loop"
    /\ mean_i <= NumDrivers
    /\ \E laps \in SeqsUpTo(SessionLapTimes, MaxLaps) :
         LET quick == PickQuicklaps(laps)
             times == TotalSeconds(quick)
         IN  /\ lap_times' = times
             /\ mean_lap_times' = Append(mean_lap_times, MeanLapTime(times))
             /\ driver_info' = driver_info @@ (mean_i :> Len(quick))
    /\ raised' = FALSE
    /\ mean_i' = mean_i + 1
    /\ UNCHANGED <<mean_pc, sorted_drivers, fastest_time>>
    /\ MeanFrame

\* lines 96-126: one iteration in which a call of the try body raises (the
\* session has no such driver, the team has no colour): the except clause
\* stores 0 for the driver
MeanProcessDriverRaises ==
    /\ mean_pc = "loop"
    /\ mean_i <= NumDrivers
    /\ lap_times' = <<>>
    /\ mean_lap_times' = Append(mean_lap_times, Zero)
    /\ raised' = TRUE
    /\ mean_i' = mean_i + 1
    /\ UNCHANGED <<mean_pc, driver_info, sorted_drivers, fastest_time>>
    /\ MeanFrame

\* lines 128-186: the drivers are sorted and the chart is drawn
MeanRender ==
    /\ mean_pc = "loop"
    /\ mean_i > NumDrivers
    /\ sorted_drivers' = SortedDrivers(NumDrivers, mean_lap_times)
    /\ fastest_time' = IF SortedDrivers(NumDrivers, mean_lap_times) # <<>>
                       THEN mean_lap_times[SortedDrivers(NumDrivers, mean_lap_times)[1]]
                       ELSE fastest_time
    /\ mean_pc' = "done"
    /\ UNCHANGED <<mean_i, lap_times, raised, mean_lap_times, driver_info>>
    /\ MeanFrame

MeanNext == MeanProcessDriver \/ MeanProcessDriverRaises \/ MeanRender

(***************************************************************************)
(* plot_race_history, in functions.py and in interface.py                  *)
(***************************************************************************)
RECURSIVE Pow2(_)
Pow2(n) == IF n <= 0 THEN 1 ELSE 2 * Pow2(n - 1)

\* Durations are counted in units of 1/Scale second, so that every average
\* the correction pass can form over MaxLap laps is a whole number of units.
Scale == Pow2(MaxLap - 2)

\* session.total_laps
TotalLaps == MaxLap

\* the lap durations a session can hold for one lap of the race
RaceLapTimes == {NaN, Num(0 - Scale), Num(90 * Scale), Num(92 * Scale)}

\* the laps one driver can have: increasing lap numbers within first..last,
\* not necessarily starting at 1 nor without gaps
RECURSIVE LapSeqs(_, _)
LapSeqs(first, last) ==
    {<<>>} \cup
    UNION {{<<[LapNumber |-> n, LapTime |-> t]>> \o rest : rest \in LapSeqs(n + 1, last)}
           : n \in first..last, t \in RaceLapTimes}

\* driver_laps['LapTime'].dt.total_seconds() and driver_laps['LapNumber']
LapTimeColumn(laps) == [i \in 1..Len(laps) |-> laps[i].LapTime]

LapNumberColumn(laps) == [i \in 1..Len(laps) |-> laps[i].LapNumber]

\* x > 0 and x <= 0 on floats: both are False for nan
IsPositive(t) == ~IsNaN(t) /\ t.v > 0

IsNonPositive(t) == ~IsNaN(t) /\ t.v <= 0

\* (a + b) / 2 on floats
Average(a, b) == IF IsNaN(a) \/ IsNaN(b) THEN NaN ELSE Num((a.v + b.v) \div 2)

FracNaN == Frac(0, 0)

\* functions.py lines 417-419: for i in range(1, len(lap_times) - 1), in place
RECURSIVE InterpolateFrom(_, _)
InterpolateFrom(times, i) ==
    IF i > Len(times) - 1 THEN times
    ELSE InterpolateFrom(
            IF IsNonPositive(times[i])
            THEN [times EXCEPT ![i] = Average(times[i - 1], times[i + 1])]
            ELSE times,
            i + 1)

Interpolate(times) == InterpolateFrom(times, 2)

\* interface.py lines 618-620: the same pass, which also replaces a missing time
RECURSIVE InterpolateNaFrom(_, _)
InterpolateNaFrom(times, i) ==
    IF i > Len(times) - 1 THEN times
    ELSE InterpolateNaFrom(
            IF IsNonPositive(times[i]) \/ IsNaN(times[i])
            THEN [times EXCEPT ![i] = Average(times[i - 1], times[i + 1])]
            ELSE times,
            i + 1)

InterpolateNa(times) == InterpolateNaFrom(times, 2)

ValidIndicesNotNa(times) == {i \in 1..Len(times) : ~IsNaN(times[i])}

\* functions.py lines 422-424: lap_times[lap_times > 0], lap_numbers likewise
ValidIndices(times) == {i \in 1..Len(times) : IsPositive(times[i])}

RECURSIVE Mask(_, _)
Mask(column, keep) ==
    IF column = <<>> THEN <<>>
    ELSE LET n == Len(column)
             front == Mask(SubSeq(column, 1, n - 1), keep)
         IN  IF n \in keep THEN Append(front, column[n]) ELSE front

\* np.cumsum of an array without nan, as whole units
RECURSIVE np_cumsum(_)
np_cumsum(times) ==
    IF times = <<>> THEN <<>>
    ELSE LET n == Len(times)
             front == np_cumsum(SubSeq(times, 1, n - 1))
         IN  Append(front, (IF n = 1 THEN 0 ELSE front[n - 1]) + times[n].v)

\* Series.cumsum(): a missing value is skipped by the running sum and gives
\* a missing entry
RECURSIVE SumSkipNa(_)
SumSkipNa(times) ==
    IF times = <<>> THEN 0
    ELSE (IF IsNaN(times[1]) THEN 0 ELSE times[1].v) + SumSkipNa(Tail(times))

pd_cumsum(times) ==
    [i \in 1..Len(times) |->
        IF IsNaN(times[i]) THEN NaN ELSE Num(SumSkipNa(SubSeq(times, 1, i)))]

\* functions.py lines 390-401: the mean of the winner's positive lap times,
\* or the winner's race time over the number of laps when there is none
ReferenceFunctions(laps, time) ==
    LET winner_lap_times == SelectSeq(LapTimeColumn(laps), IsPositive)
    IN  IF Len(winner_lap_times) > 0
        THEN Frac(SumSkipNa(winner_lap_times), Len(winner_lap_times))
        ELSE IF IsNaN(time) THEN FracNaN ELSE Frac(time.v, TotalLaps)

\* interface.py line 601
ReferenceInterface(time) == Frac(time.v, TotalLaps)

\* reference * k - cumulative, as a fraction with the denominator of reference
Delta(reference, k, cumulative) ==
    IF FracIsNaN(reference) THEN FracNaN
    ELSE Frac(reference.num * k - cumulative * reference.den, reference.den)

\* functions.py lines 413-439: what one iteration computes for a driver
HistoryFunctions(laps, reference) ==
    LET corrected   == Interpolate(LapTimeColumn(laps))
        valid       == ValidIndices(corrected)
        lap_time    == Mask(corrected, valid)
        lap_numbers == Mask(LapNumberColumn(laps), valid)
        cumulative  == np_cumsum(lap_time)
    IN  [corrected   |-> corrected,
         lap_times   |-> lap_time,
         lap_numbers |-> lap_numbers,
         delta       |-> [i \in 1..Len(lap_time) |-> Delta(reference, i, cumulative[i])]]

\* interface.py lines 615-640
HistoryInterface(laps, reference) ==
    LET corrected   == InterpolateNa(LapTimeColumn(laps))
        lap_numbers == LapNumberColumn(laps)
        cumulative  == pd_cumsum(corrected)
    IN  [corrected   |-> corrected,
         lap_times   |-> corrected,
         lap_numbers |-> lap_numbers,
         delta       |-> [i \in 1..Len(corrected) |->
                            IF IsNaN(cumulative[i]) THEN FracNaN
                            ELSE Delta(reference, lap_numbers[i], cumulative[i].v)]]

\* the pass of the two routines written into the LapTime column of the
\* driver's laps, as it would be if lap_times shared its memory with them
LapsWrittenThrough(laps, corrected) ==
    [j \in 1..Len(laps) |-> [laps[j] EXCEPT !.LapTime = corrected[j]]]

\* functions.py line 413, interface.py line 615: dt.total_seconds() builds a
\* new array of seconds, so the writes of the pass (lines 419 and 620) reach
\* that array only and the driver's laps in session.laps keep their values
LapsAfterPass(laps, corrected) == laps

\* session.laps.pick_quicklaps(): the laps of the session whose LapTime is
\* below 107 % of the fastest lap time of the session
SessionQuicklaps(laps) ==
    LET timed == {laps[d][j].LapTime.v :
                    <<d, j>> \in {c \in (DOMAIN laps) \X (1..MaxLap) :
                                    /\ c[2] <= Len(laps[c[1]])
                                    /\ ~IsNaN(laps[c[1]][c[2]].LapTime)}}
    IN  [d \in DOMAIN laps |->
           SelectSeq(laps[d], LAMBDA l : /\ ~IsNaN(l.LapTime)
                                         /\ 100 * l.LapTime.v < 107 * MinOfSet(timed))]

\* laps.copy() and the column "LapTime (s)" added to the copy
TransformedLaps(laps) ==
    [d \in DOMAIN laps |->
       [j \in 1..Len(laps[d]) |->
          [LapNumber |-> laps[d][j].LapNumber,
           LapTime   |-> laps[d][j].LapTime,
           LapTimeS  |-> laps[d][j].LapTime.v]]]

HistIdle ==
    /\ hist_impl = "none"
    /\ hist_pc = "idle"
    /\ transformed_laps = <<>>
    /\ hist_i = 0
    /\ session_laps = <<>>
    /\ winner_time = NaN
    /\ reference_lap_time = FracNaN
    /\ plotted = <<>>

\* a loaded race session is handed to one of the two routines
HistInit ==
    /\ hist_impl \in {"functions", "interface"}
    /\ hist_pc = "start"
    /\ transformed_laps = <<>>
    /\ hist_i = 1
    /\ session_laps \in {<<w, d>> : w \in LapSeqs(1, MaxWinnerLap), d \in LapSeqs(1, MaxLap)}
    /\ winner_time \in {NaN, Num(90 * Scale * TotalLaps)}
    /\ reference_lap_time = FracNaN
    /\ plotted = <<>>

\* functions.py lines 381-401, interface.py lines 586-601: the reference pace;
\* interface.py returns without a chart when the winner has no race time
HistReference ==
    /\ hist_pc = "start"
    /\ IF hist_impl = "functions"
       THEN /\ reference_lap_time' = ReferenceFunctions(session_laps[1], winner_time)
            /\ hist_pc' = "loop"
       ELSE IF IsNaN(winner_time)
            THEN /\ hist_pc' = "done"
                 /\ UNCHANGED reference_lap_time
            ELSE /\ reference_lap_time' = ReferenceInterface(winner_time)
                 /\ hist_pc' = "loop"
    /\ UNCHANGED <<hist_impl, hist_i, session_laps, winner_time, plotted,
                   transformed_laps>>
    /\ HistFrame

\* functions.py lines 404-446, interface.py lines 604-650: one iteration of
\* the driver loop; a driver without laps is skipped
HistProcessDriver ==
    /\ hist_pc = "loop"
    /\ hist_i <= NumDrivers
    /\ LET laps   == session_laps[hist_i]
           result == IF hist_impl = "functions"
                     THEN HistoryFunctions(laps, reference_lap_time)
                     ELSE HistoryInterface(laps, reference_lap_time)
       IN  /\ plotted' = IF laps = <<>> THEN plotted ELSE (hist_i :> result) @@ plotted
           /\ session_laps' = [session_laps EXCEPT
                                 ![hist_i] = LapsAfterPass(laps, result.corrected)]
    /\ hist_i' = hist_i + 1
    /\ UNCHANGED <<hist_impl, hist_pc, winner_time, reference_lap_time, transformed_laps>>
    /\ HistFrame

\* the same iteration when a call of its try body raises (no colour for the
\* driver or the team): the except clause reports it and nothing is drawn
HistProcessDriverRaises ==
    /\ hist_pc = "loop"
    /\ hist_i <= NumDrivers
    /\ hist_i' = hist_i + 1
    /\ UNCHANGED <<hist_impl, hist_pc, session_laps, winner_time, reference_lap_time,
                   plotted, transformed_laps>>
    /\ HistFrame

\* functions.py lines 451-475, interface.py lines 654-684: the chart is drawn
HistRender ==
    /\ hist_pc = "loop"
    /\ hist_i > NumDrivers
    /\ hist_pc' = "done"
    /\ UNCHANGED <<hist_impl, hist_i, session_laps, winner_time, reference_lap_time,
                   plotted, transformed_laps>>
    /\ HistFrame

\* plot_team_pace_comparison (functions.py lines 489-495, interface.py lines
\* 693-697) is requested next for the same session
HistTeamPace ==
    /\ hist_pc = "done"
    /\ transformed_laps' = TransformedLaps(SessionQuicklaps(session_laps))
    /\ hist_pc' = "team_pace"
    /\ UNCHANGED <<hist_impl, hist_i, session_laps, winner_time, reference_lap_time,
                   plotted>>
    /\ HistFrame

HistNext ==
    \/ HistReference
    \/ HistProcessDriver
    \/ HistProcessDriverRaises
    \/ HistRender
    \/ HistTeamPace

(***************************************************************************)
(* functions.analyze_overtakes                                             *)
(***************************************************************************)
\* the positions a lap record can hold
LapPositions == {NaN, Num(1), Num(3)}

RECURSIVE PositionLapSeqs(_, _)
PositionLapSeqs(first, last) ==
    {<<>>} \cup
    UNION {{<<[LapNumber |-> n, Position |-> q]>> \o rest : rest \in PositionLapSeqs(n + 1, last)}
           : n \in first..last, q \in LapPositions}

\* race.laps['LapNumber'].max(); 0 stands for the nan of a session without laps
LapCount(laps) ==
    LET numbers == UNION {{laps[d][k].LapNumber : k \in 1..Len(laps[d])} : d \in 1..Len(laps)}
    IN  IF numbers = {} THEN 0 ELSE MaxOfSet(numbers)

\* lines 951-957: the row of one driver, from the driver's laps in order
RECURSIVE GridRow(_, _, _)
GridRow(row, laps, lap_count) ==
    IF laps = <<>> THEN row
    ELSE LET lap == laps[1]
         IN  GridRow(
                IF 1 <= lap.LapNumber /\ lap.LapNumber <= lap_count /\ ~IsNaN(lap.Position)
                THEN [row EXCEPT ![lap.LapNumber] = lap.Position.v]
                ELSE row,
                Tail(laps), lap_count)

\* lines 961-964: for j in range(lap_count), carry the previous cell forward
RECURSIVE FillRowFrom(_, _)
FillRowFrom(row, j) ==
    IF j > Len(row) THEN row
    ELSE FillRowFrom(IF row[j] = 0 /\ j > 1 THEN [row EXCEPT ![j] = row[j - 1]] ELSE row,
                     j + 1)

\* every empty cell takes the value the cell before it had before the pass
FillRowFromCopy(row) ==
    [j \in 1..Len(row) |-> IF row[j] = 0 /\ j > 1 THEN row[j - 1] ELSE row[j]]

FillRow(row) == FillRowFrom(row, 1)

\* lines 1006-1022: for lap in range(1, lap_count), a marker at lap + 1 for
\* a change of more than one place, annotated when it is more than two places
Abs(x) == IF x < 0 THEN 0 - x ELSE x

PosChange(grid, i, lap) == grid[i][lap] - grid[i][lap + 1]

Markers(grid, lap_count) ==
    {[driver     |-> c[1],
      lap        |-> c[2] + 1,
      pos_change |-> PosChange(grid, c[1], c[2]),
      marker     |-> IF PosChange(grid, c[1], c[2]) > 0 THEN "^" ELSE "v",
      color      |-> IF PosChange(grid, c[1], c[2]) > 0 THEN "green" ELSE "red",
      annotated  |-> Abs(PosChange(grid, c[1], c[2])) > 2]
       : c \in {x \in (DOMAIN grid) \X (1..(lap_count - 1)) :
                   /\ grid[x[1]][x[2] + 1] # grid[x[1]][x[2]]
                   /\ Abs(PosChange(grid, x[1], x[2])) > 1}}

OvIdle ==
    /\ ov_pc = "idle"
    /\ ov_i = 0
    /\ ov_laps = <<>>
    /\ overtakes_grid = <<>>
    /\ ov_lines = {}
    /\ ov_markers = {}

\* a loaded race session is handed to analyze_overtakes
OvInit ==
    /\ ov_pc = "start"
    /\ ov_i = 1
    /\ ov_laps \in {<<a, b>> : a \in PositionLapSeqs(1, MaxRaceLap),
                             b \in PositionLapSeqs(1, MaxRaceLap)}
    /\ overtakes_grid = <<>>
    /\ ov_lines = {}
    /\ ov_markers = {}

\* lines 931-940: the grid of zeros; np.zeros raises for a session without laps
OvStart ==
    /\ ov_pc = "start"
    /\ IF LapCount(ov_laps) = 0
       THEN /\ ov_pc' = "raised"
            /\ UNCHANGED overtakes_grid
       ELSE /\ ov_pc' = "grid"
            /\ overtakes_grid' = [d \in 1..NumDrivers |-> [j \in 1..LapCount(ov_laps) |-> 0]]
    /\ UNCHANGED <<ov_i, ov_laps, ov_lines, ov_markers>>
    /\ OvFrame

\* lines 943-957: one iteration of the position-grid loop
OvGridDriver ==
    /\ ov_pc = "grid"
    /\ ov_i <= NumDrivers
    /\ overtakes_grid' = [overtakes_grid EXCEPT
                            ![ov_i] = GridRow(@, ov_laps[ov_i], LapCount(ov_laps))]
    /\ ov_i' = ov_i + 1
    /\ UNCHANGED <<ov_pc, ov_laps, ov_lines, ov_markers>>
    /\ OvFrame

\* the same iteration when a call of its body raises: the loop has no try,
\* the exception leaves analyze_overtakes and no chart is drawn
OvGridDriverRaises ==
    /\ ov_pc = "grid"
    /\ ov_i <= NumDrivers
    /\ ov_pc' = "raised"
    /\ UNCHANGED <<ov_i, ov_laps, overtakes_grid, ov_lines, ov_markers>>
    /\ OvFrame

\* lines 959-964: the gap-filling pass over the whole grid
OvFill ==
    /\ ov_pc = "grid"
    /\ ov_i > NumDrivers
    /\ overtakes_grid' = [d \in DOMAIN overtakes_grid |-> FillRow(overtakes_grid[d])]
    /\ ov_pc' = "render"
    /\ UNCHANGED <<ov_i, ov_laps, ov_lines, ov_markers>>
    /\ OvFrame

\* lines 966-1060: the position lines (a driver whose line fails to plot is
\* skipped by the try of that loop), the markers and the chart
OvRender ==
    /\ ov_pc = "render"
    /\ \E failing \in SUBSET (1..NumDrivers) : ov_lines' = (1..NumDrivers) \ failing
    /\ ov_markers' = Markers(overtakes_grid, LapCount(ov_laps))
    /\ ov_pc' = "done"
    /\ UNCHANGED <<ov_i, ov_laps, overtakes_grid>>
    /\ OvFrame

OvNext == OvStart \/ OvGridDriver \/ OvGridDriverRaises \/ OvFill \/ OvRender

(***************************************************************************)
(* interface.F1StatsApp.open_analysis_window: the parameter dialog and its *)
(* Analyze handler on_analyze.  Tk runs every callback on the thread of    *)
(* the main loop; the handler calls only update_idletasks(), which runs no *)
(* button or timer callback, so a callback starts only when none runs      *)
(* (an_pc = "idle").  The handler is split at its blocking calls.          *)
(***************************************************************************)
AnalysisFunctions == {"plot_testing_pace", "plot_race_history"}

YearTexts == {"2025", "20x5"}

TestingTexts == {<<"1", "1">>, <<"1">>, <<"1", "x">>}

\* int(text) returns for these texts and raises ValueError for any other
IntTexts == {"2025", "1"}

\* lines 283-285: testing_params[0] and testing_params[1] exist and int() takes them
TestingParamsParse(tokens) ==
    /\ Len(tokens) >= 2
    /\ tokens[1] \in IntTexts
    /\ tokens[2] \in IntTexts

AnIdle ==
    /\ an_pc = "off"
    /\ analysis_function = "none"
    /\ year_entry = ""
    /\ testing_entry = <<>>
    /\ details_window = "none"
    /\ progress_bar = 0
    /\ status_label = ""
    /\ main_status = ""
    /\ an_session = "none"
    /\ an_steps = <<>>
    /\ invoked_with = "none"
    /\ close_scheduled = FALSE
    /\ requests = 0

\* lines 155-332: the dialog as open_analysis_window leaves it
AnInit ==
    /\ an_pc = "idle"
    /\ analysis_function \in AnalysisFunctions
    /\ year_entry = "2025"
    /\ testing_entry = <<"1", "1">>
    /\ details_window = "open"
    /\ progress_bar = 0
    /\ status_label = ""
    /\ main_status = "Ready"
    /\ an_session = "none"
    /\ an_steps = <<>>
    /\ invoked_with = "none"
    /\ close_scheduled = FALSE
    /\ requests = 0

\* an except clause that reports the error and leaves the progress bar as it is
OnAnalyzeExceptKeepsProgress ==
    /\ progress_bar' = progress_bar
    /\ status_label' = "Error: ..."
    /\ main_status' = "Error in analysis: ..."
    /\ an_pc' = "idle"

\* lines 310-313: the except clause of on_analyze, which ends the handler
OnAnalyzeExcept ==
    /\ progress_bar' = 0
    /\ status_label' = "Error: ..."
    /\ main_status' = "Error in analysis: ..."
    /\ an_pc' = "idle"

\* the user edits the fields and clicks Analyze; lines 268-270
OnAnalyzeBegin ==
    /\ an_pc = "idle"
    /\ details_window = "open"
    /\ requests < MaxRequests
    /\ year_entry' \in YearTexts
    /\ testing_entry' \in TestingTexts
    /\ progress_bar' = 1
    /\ status_label' = "Loading data..."
    /\ an_session' = "none"
    /\ an_steps' = <<>>
    /\ an_pc' = "get_session"
    /\ requests' = requests + 1
    /\ UNCHANGED <<analysis_function, details_window, main_status, invoked_with,
                   close_scheduled>>
    /\ AnFrame

\* lines 273-292: the fields are parsed and the session is looked up
OnAnalyzeGetSession ==
    /\ an_pc = "get_session"
    /\ \E found \in BOOLEAN :
         IF /\ year_entry \in IntTexts
            /\ analysis_function = "plot_testing_pace" => TestingParamsParse(testing_entry)
            /\ found
         THEN /\ main_status' = "Analyzing ..."
              /\ an_session' = "obtained"
              /\ an_steps' = Append(an_steps, "get_session")
              /\ progress_bar' = 3
              /\ status_label' = "Processing session data..."
              /\ an_pc' = "load"
         ELSE /\ OnAnalyzeExcept
              /\ UNCHANGED <<an_session, an_steps>>
    /\ UNCHANGED <<analysis_function, year_entry, testing_entry, details_window,
                   invoked_with, close_scheduled, requests>>
    /\ AnFrame

\* a handler that goes on to the analysis without session.load()
OnAnalyzeLoadSkipped ==
    /\ an_pc = "load"
    /\ progress_bar' = 7
    /\ status_label' = "Generating visualization..."
    /\ an_pc' = "analysis"
    /\ UNCHANGED <<analysis_function, year_entry, testing_entry, details_window,
                   main_status, an_session, an_steps, invoked_with, close_scheduled,
                   requests>>
    /\ AnFrame

\* lines 294-297: session.load() returns or raises
OnAnalyzeLoad ==
    /\ an_pc = "load"
    /\ \E loaded \in BOOLEAN :
         IF loaded
         THEN /\ an_session' = "loaded"
              /\ an_steps' = Append(an_steps, "load")
              /\ progress_bar' = 7
              /\ status_label' = "Generating visualization..."
              /\ an_pc' = "analysis"
              /\ UNCHANGED main_status
         ELSE /\ OnAnalyzeExcept
              /\ UNCHANGED <<an_session, an_steps>>
    /\ UNCHANGED <<analysis_function, year_entry, testing_entry, details_window,
                   invoked_with, close_scheduled, requests>>
    /\ AnFrame

\* line 300: analysis_function(session, drivers) returns or raises
OnAnalyzeRun ==
    /\ an_pc = "analysis"
    /\ invoked_with' = an_session
    /\ \E returned \in BOOLEAN :
         IF returned
         THEN /\ an_steps' = Append(an_steps, "analysis")
              /\ an_pc' = "report"
              /\ UNCHANGED <<progress_bar, status_label, main_status>>
         ELSE /\ OnAnalyzeExcept
              /\ UNCHANGED an_steps
    /\ UNCHANGED <<analysis_function, year_entry, testing_entry, details_window,
                   an_session, close_scheduled, requests>>
    /\ AnFrame

\* lines 302-308: success is reported and the close of the dialog scheduled
OnAnalyzeReport ==
    /\ an_pc = "report"
    /\ progress_bar' = 10
    /\ status_label' = "Analysis completed successfully!"
    /\ main_status' = "Analysis completed"
    /\ an_steps' = Append(an_steps, "success")
    /\ close_scheduled' = TRUE
    /\ an_pc' = "idle"
    /\ UNCHANGED <<analysis_function, year_entry, testing_entry, details_window,
                   an_session, invoked_with, requests>>
    /\ AnFrame

\* line 308: the timer set by after(1000, details_window.destroy) fires
CloseTimer ==
    /\ an_pc = "idle"
    /\ close_scheduled
    /\ details_window' = "destroyed"
    /\ close_scheduled' = FALSE
    /\ UNCHANGED <<an_pc, analysis_function, year_entry, testing_entry, progress_bar,
                   status_label, main_status, an_session, an_steps, invoked_with, requests>>
    /\ AnFrame

\* lines 262-264: the user clicks Cancel
OnCancel ==
    /\ an_pc = "idle"
    /\ details_window = "open"
    /\ details_window' = "destroyed"
    /\ UNCHANGED <<an_pc, analysis_function, year_entry, testing_entry, progress_bar,
                   status_label, main_status, an_session, an_steps, invoked_with,
                   close_scheduled, requests>>
    /\ AnFrame

AnNext ==
    \/ OnAnalyzeBegin
    \/ OnAnalyzeGetSession
    \/ OnAnalyzeLoad
    \/ OnAnalyzeRun
    \/ OnAnalyzeReport
    \/ CloseTimer
    \/ OnCancel

(***************************************************************************)
(* functions.analyze_long_runs, for the driver the dialog returned.  Lap    *)
(* times are whole seconds; the tyre life of a lap is its place in the     *)
(* stint.                                                                  *)
(***************************************************************************)
\* line 1473
MinStintLength == 5

StintLapTimes == {NaN, Num(90), Num(120)}

\* a stint as groupby('Stint') yields it
StintOf(times) == [k \in 1..Len(times) |-> [TyreLife |-> k, LapTime |-> times[k]]]

\* the first stint of the driver has any length and lap times
FirstStints == {StintOf(t) : t \in SeqsUpTo(StintLapTimes, MaxStintLen)}

\* the second stint is a long one whose last laps may have no time
SecondStints ==
    {StintOf([i \in 1..MinStintLength |-> IF i <= k THEN Num(92) ELSE NaN]) :
       k \in 0..MinStintLength}

\* lines 1476-1478
LongStints(stints) == SelectSeq([k \in 1..Len(stints) |-> k],
                                LAMBDA k : Len(stints[k]) >= MinStintLength)

\* lines 1506-1508: mask = ~np.isnan(lap_times)
NotNaMask(times) == {i \in 1..Len(times) : ~IsNaN(times[i])}

\* lines 1515-1520: outlier_mask, every term multiplied by 8
OutlierMask(times) ==
    LET q1  == Percentile4(times, 1)
        q3  == Percentile4(times, 3)
        iqr == q3 - q1
    IN  {i \in 1..Len(times) :
           8 * times[i] >= 2 * q1 - 3 * iqr /\ 8 * times[i] <= 2 * q3 + 3 * iqr}

\* lines 1546-1549: the slope of the least-squares line of y against x
OlsSlope(x, y) ==
    LET n   == Len(x)
        sx  == SumSeq(x)
        sy  == SumSeq(y)
        sxy == SumSeq([i \in 1..n |-> x[i] * y[i]])
        sxx == SumSeq([i \in 1..n |-> x[i] * x[i]])
    IN  Frac(n * sxy - sx * sy, n * sxx - sx * sx)

\* a regression for every stint that is drawn with two points or more
HasRegressionFromTwo(times) == Len(times) >= 2

\* line 1545
HasRegression(times) == Len(times) >= 3

\* lines 1497-1562: one iteration of the loop over the long stints; drawn is
\* FALSE when the iteration ends at one of its continue statements
LongRunStint(stint) ==
    LET raw      == [i \in 1..Len(stint) |-> stint[i].LapTime]
        mask     == NotNaMask(raw)
        tyre_1   == Mask([i \in 1..Len(stint) |-> stint[i].TyreLife], mask)
        times_1  == TotalSeconds(Mask(raw, mask))
        outliers == IF Len(times_1) > 5 THEN OutlierMask(times_1) ELSE 1..Len(times_1)
        tyre_life == Mask(tyre_1, outliers)
        times     == Mask(times_1, outliers)
    IN  IF Len(times_1) = 0 \/ Len(times) = 0
        THEN [drawn |-> FALSE, tyre_life |-> <<>>, lap_times |-> <<>>,
              regression |-> FALSE, slope |-> FracNaN]
        ELSE [drawn |-> TRUE, tyre_life |-> tyre_life, lap_times |-> times,
              regression |-> HasRegression(times),
              slope |-> IF HasRegression(times) THEN OlsSlope(tyre_life, times)
                        ELSE FracNaN]

LrIdle ==
    /\ lr_pc = "idle"
    /\ lr_i = 0
    /\ lr_stints = <<>>
    /\ long_stints = <<>>
    /\ lr_drawn = <<>>

\* lines 1462-1470: the laps of the selected driver, grouped by stint
LrInit ==
    /\ lr_pc = "start"
    /\ lr_i = 1
    /\ lr_stints \in {<<a, b>> : a \in FirstStints, b \in SecondStints}
    /\ long_stints = <<>>
    /\ lr_drawn = <<>>

\* lines 1472-1482: the long stints are picked
LrStart ==
    /\ lr_pc = "start"
    /\ long_stints' = LongStints(lr_stints)
    /\ lr_pc' = IF LongStints(lr_stints) = <<>> THEN "done" ELSE "loop"
    /\ UNCHANGED <<lr_i, lr_stints, lr_drawn>>
    /\ LrFrame

\* lines 1497-1562: one iteration
LrStint ==
    /\ lr_pc = "loop"
    /\ lr_i <= Len(long_stints)
    /\ lr_drawn' = (long_stints[lr_i] :> LongRunStint(lr_stints[long_stints[lr_i]]))
                    @@ lr_drawn
    /\ lr_i' = lr_i + 1
    /\ UNCHANGED <<lr_pc, lr_stints, long_stints>>
    /\ LrFrame

\* the loop is over and the routine returns
LrReturn ==
    /\ lr_pc = "loop"
    /\ lr_i > Len(long_stints)
    /\ lr_pc' = "done"
    /\ UNCHANGED <<lr_i, lr_stints, long_stints, lr_drawn>>
    /\ LrFrame

LrNext == LrStart \/ LrStint \/ LrReturn

(***************************************************************************)
(* functions.plot_lap_times.  The body of the function holds the chart     *)
(* code twice: lines 196-284 draw a chart with the IQR filter, and after   *)
(* its plt.show() lines 291-372 draw a second chart without the filter.    *)
(* Lap times are whole seconds; the lap number of a lap is its place in    *)
(* the driver's laps.                                                      *)
(***************************************************************************)
\* the lap times of the first driver of the session
TimedLaps == {NaN, Num(90), Num(120)}

\* the laps of the second driver of the session: at most two, all timed
OtherLaps == SeqsUpTo({Num(89), Num(100)}, 2)

\* the orders in which the drivers can be given
DriverOrders == {<<1, 2>>, <<2, 1>>}

\* np.argmin: the first position of the smallest value
ArgMin(times) ==
    CHOOSE i \in 1..Len(times) :
        /\ \A j \in 1..Len(times) : times[i] <= times[j]
        /\ \A j \in 1..(i - 1) : times[j] > times[i]

\* lines 213-238 (chart 1) and 308-316 (chart 2): the laps of the line of a
\* driver, as the positions kept of the driver's laps
LapsKept(laps, chart) ==
    LET mask  == NotNaMask(laps)
        times == TotalSeconds(Mask(laps, mask))
        lap_number == Mask([i \in 1..Len(laps) |-> i], mask)
    IN  IF chart = 1 /\ Len(times) > 3
        THEN Mask(lap_number, OutlierMask(times))
        ELSE lap_number

\* lines 252 and 330: fastest_lap == min(all_lap_times)
IsFastest(fastest_lap, all_times) == fastest_lap = MinOfSet(Range(all_times))

LtIdle ==
    /\ lt_pc = "idle"
    /\ lt_chart = 0
    /\ lt_i = 0
    /\ lt_drivers = <<>>
    /\ lt_laps = <<>>
    /\ all_lap_times = <<>>
    /\ lt_lines = <<>>
    /\ lt_markers = {}

\* lines 196-203
LtInit ==
    /\ lt_pc = "loop"
    /\ lt_chart = 1
    /\ lt_i = 1
    /\ lt_drivers \in DriverOrders
    /\ lt_laps \in {<<a, b>> : a \in SeqsUpTo(TimedLaps, MaxTimedLaps), b \in OtherLaps}
    /\ all_lap_times = <<>>
    /\ lt_lines = <<>>
    /\ lt_markers = {}

\* lines 205-260 and 302-338: one iteration of the driver loop
LtDriver ==
    /\ lt_pc = "loop"
    /\ lt_i <= Len(lt_drivers)
    /\ LET driver == lt_drivers[lt_i]
           laps   == lt_laps[driver]
           kept   == LapsKept(laps, lt_chart)
           lap_time == [k \in 1..Len(kept) |-> laps[kept[k]].v]
           all    == all_lap_times \o lap_time
       IN  IF kept = <<>>
           THEN UNCHANGED <<all_lap_times, lt_lines, lt_markers>>
           ELSE /\ all_lap_times' = all
                /\ lt_lines' = (<<lt_chart, driver>> :>
                                   [lap_number |-> kept, lap_time |-> lap_time]) @@ lt_lines
                /\ lt_markers' =
                      IF IsFastest(lap_time[ArgMin(lap_time)], all)
                      THEN lt_markers \cup {[chart |-> lt_chart, driver |-> driver,
                                              lap_number |-> kept[ArgMin(lap_time)],
                                              lap_time |-> lap_time[ArgMin(lap_time)]]}
                      ELSE lt_markers
    /\ lt_i' = lt_i + 1
    /\ UNCHANGED <<lt_pc, lt_chart, lt_drivers, lt_laps>>
    /\ LtFrame

\* the same iteration when fastf1.plotting.driver_color (lines 241, 319)
\* raises: the except clause prints and the loop goes on
LtDriverRaises ==
    /\ lt_pc = "loop"
    /\ lt_i <= Len(lt_drivers)
    /\ LapsKept(lt_laps[lt_drivers[lt_i]], lt_chart) # <<>>
    /\ lt_i' = lt_i + 1
    /\ UNCHANGED <<lt_pc, lt_chart, lt_drivers, lt_laps, all_lap_times, lt_lines,
                   lt_markers>>
    /\ LtFrame

\* lines 262-284 and 340-372: the chart is shown; after the first chart the
\* second is begun with an empty all_lap_times (line 300)
LtShow ==
    /\ lt_pc = "loop"
    /\ lt_i > Len(lt_drivers)
    /\ IF lt_chart = 1
       THEN /\ lt_chart' = 2
            /\ lt_i' = 1
            /\ all_lap_times' = <<>>
            /\ UNCHANGED lt_pc
       ELSE /\ lt_pc' = "done"
            /\ UNCHANGED <<lt_chart, lt_i, all_lap_times>>
    /\ UNCHANGED <<lt_drivers, lt_laps, lt_lines, lt_markers>>
    /\ LtFrame

LtNext == LtDriver \/ LtDriverRaises \/ LtShow

(***************************************************************************)
(* functions.analyze_team_development.  Lap times are whole seconds.       *)
(***************************************************************************)
\* the None of Python and a stored number
None == [none |-> TRUE, v |-> 0]

Some(x) == [none |-> FALSE, v |-> x]

\* line 1087: the number of races np.linspace selects
NumSelected == 6

\* line 1087: np.linspace(0, race_count - 1, 6, dtype=int), the k-th of the
\* evenly spaced numbers k * (race_count - 1) / 5 cut to an integer
Linspace(n) == [k \in 1..NumSelected |-> ((k - 1) * (n - 1)) \div (NumSelected - 1)]

\* lines 1083-1088
SelectedRaces(n) == IF n < 3 THEN [k \in 1..n |-> k - 1] ELSE Linspace(n)

\* session.drivers and session.get_driver(driver)['TeamName']
TdDrivers == <<"1", "11", "44">>

TeamName == [d \in 1..Len(TdDrivers) |-> IF d = 3 THEN "Mercedes" ELSE "Red Bull Racing"]

\* lines 1109-1115: what a driver of these can get into fastest_laps in one
\* session; None when the driver has no lap or the try of line 1110 fails
FastestLapChoices == <<{Some(90), Some(92)}, {Some(91)}, {None, Some(91)}>>

\* session.drivers comes in either order
TdOrders == {<<1, 2, 3>>, <<3, 2, 1>>}

\* the time of the driver met last is stored, whatever was stored
IsFasterAlways(lap_time, stored) == TRUE

\* line 1132
IsFaster(lap_time, stored) == stored = None \/ lap_time < stored.v

\* lines 1118-1135: the loop over fastest_laps.items(), in session.drivers order
RECURSIVE GroupByTeam(_, _, _, _)
GroupByTeam(data, i, order, fastest_laps) ==
    IF order = <<>> THEN data
    ELSE LET driver == order[1]
             team   == TeamName[driver]
             known  == IF team \in DOMAIN data THEN data
                       ELSE (team :> [k \in 1..Len(selected_races) |-> None]) @@ data
         IN  GroupByTeam(
                IF fastest_laps[driver] = None THEN data
                ELSE IF IsFaster(fastest_laps[driver].v, known[team][i + 1])
                     THEN [known EXCEPT ![team][i + 1] = fastest_laps[driver]]
                     ELSE known,
                i, Tail(order), fastest_laps)

\* lines 1151-1153: min(..., default=None) over the teams with a time at race i
FastestTimes(data, i) ==
    LET stored == {data[t][i + 1].v : t \in {u \in DOMAIN data : data[u][i + 1] # None}}
    IN  IF stored = {} THEN None ELSE Some(MinOfSet(stored))

\* lines 1156-1166: the percentage from the fastest, as a fraction
Normalized(data) ==
    [t \in DOMAIN data |->
       [k \in 1..Len(data[t]) |->
          IF data[t][k] # None /\ FastestTimes(data, k - 1) # None
          THEN Frac(100 * (data[t][k].v - FastestTimes(data, k - 1).v),
                    FastestTimes(data, k - 1).v)
          ELSE FracNaN]]

\* line 1104: a session of the round that is not loaded
NoSession(round) ==
    [loaded |-> FALSE, round |-> round, drivers |-> <<>>, fastest_laps |-> <<>>]

TdIdle ==
    /\ td_pc = "idle"
    /\ race_count = 0
    /\ selected_races = <<>>
    /\ td_i = 0
    /\ td_session = NoSession(0)
    /\ team_data = <<>>
    /\ normalized_data = <<>>

\* lines 1069-1074: the schedule of the season is fetched
TdInit ==
    /\ td_pc = "start"
    /\ race_count \in 0..MaxRaceCount
    /\ selected_races = <<>>
    /\ td_i = 0
    /\ td_session = NoSession(0)
    /\ team_data = <<>>
    /\ normalized_data = <<>>

\* lines 1076-1093: the races are selected; an empty schedule ends the routine
TdSelect ==
    /\ td_pc = "start"
    /\ IF race_count = 0
       THEN /\ td_pc' = "done"
            /\ UNCHANGED selected_races
       ELSE /\ td_pc' = "loop"
            /\ selected_races' = SelectedRaces(race_count)
    /\ UNCHANGED <<race_count, td_i, td_session, team_data, normalized_data>>
    /\ TdFrame

\* lines 1097-1135: one iteration whose session loads
TdRace ==
    /\ td_pc = "loop"
    /\ td_i < Len(selected_races)
    /\ \E order \in TdOrders :
       \E fastest_laps \in {f \in [1..Len(TdDrivers) -> UNION Range(FastestLapChoices)] :
                               \A d \in 1..Len(TdDrivers) : f[d] \in FastestLapChoices[d]} :
          /\ td_session' = [loaded |-> TRUE, round |-> selected_races[td_i + 1] + 1,
                            drivers |-> order, fastest_laps |-> fastest_laps]
          /\ team_data' = GroupByTeam(team_data, td_i, order, fastest_laps)
    /\ td_i' = td_i + 1
    /\ UNCHANGED <<td_pc, race_count, selected_races, normalized_data>>
    /\ TdFrame

\* lines 1097-1142: one iteration whose get_session or load raises; the
\* except clause assigns None where None is
TdRaceFails ==
    /\ td_pc = "loop"
    /\ td_i < Len(selected_races)
    /\ td_session' = NoSession(selected_races[td_i + 1] + 1)
    /\ team_data' = [t \in DOMAIN team_data |->
                       IF team_data[t][td_i + 1] = None
                       THEN [team_data[t] EXCEPT ![td_i + 1] = None]
                       ELSE team_data[t]]
    /\ td_i' = td_i + 1
    /\ UNCHANGED <<td_pc, race_count, selected_races, normalized_data>>
    /\ TdFrame

\* lines 1144-1165: the times are normalized and plotted
TdPlot ==
    /\ td_pc = "loop"
    /\ td_i = Len(selected_races)
    /\ normalized_data' = Normalized(team_data)
    /\ td_pc' = "done"
    /\ UNCHANGED <<race_count, selected_races, td_i, td_session, team_data>>
    /\ TdFrame

TdNext == TdSelect \/ TdRace \/ TdRaceFails \/ TdPlot

(***************************************************************************)
(* compare_teammates (src/functions.py, lines 1216-1431).                  *)
(***************************************************************************)
\* lines 1247-1258: the drivers of the team in the season, at least two
Teammates == <<"VER", "PER">>

NumTeammates == Len(Teammates)

\* lines 1295-1299: the Position column of a session's results for the
\* teammates in order; None for a teammate without a row in the results
ResultTables ==
    { <<None, None>>, <<Some(1), None>>, <<None, Some(2)>>,
      <<Some(1), Some(2)>>, <<Some(2), Some(1)>>, <<Some(2), Some(2)>> }

\* a pairing that asks for one of the two positions only
HasEither(quali_pos, race_pos) == quali_pos # None \/ race_pos # None

\* line 1301: quali_pos is not None and race_pos is not None
HasBoth(quali_pos, race_pos) == quali_pos # None /\ race_pos # None

\* lines 1290-1303: the (teammate, position) pairs appended for the first n
\* teammates; a teammate is paired in both lists or in neither
RECURSIVE PairedResults(_, _, _)
PairedResults(n, quali, race) ==
    IF n = 0 THEN [quali_results |-> <<>>, race_results |-> <<>>]
    ELSE LET rest == PairedResults(n - 1, quali, race)
         IN  IF HasBoth(quali[n], race[n])
             THEN [quali_results |-> Append(rest.quali_results, <<n, quali[n].v>>),
                   race_results |-> Append(rest.race_results, <<n, race[n].v>>)]
             ELSE rest

\* lines 1309-1313: every (code, pos) of the results is appended to the
\* list of its teammate
RECURSIVE AppendResults(_, _)
AppendResults(data, results) ==
    IF results = <<>> THEN data
    ELSE LET code == results[1][1]
             pos == results[1][2]
         IN  AppendResults([data EXCEPT ![code] = Append(@, pos)], Tail(results))

\* a minimum that returns the last of the smallest items
BestLast(data, i) ==
    CHOOSE code \in 1..NumTeammates :
        /\ \A other \in 1..NumTeammates : data[code][i] <= data[other][i]
        /\ \A other \in (code + 1)..NumTeammates : data[other][i] > data[code][i]

\* lines 1400 and 1404: min over the (code, position) pairs in dict order with
\* the position as key; min returns the first of the smallest items
Best(data, i) == ArgMin([code \in 1..NumTeammates |-> data[code][i]])

\* lines 1395-1405: the wins counted over the first n stored races
RECURSIVE HeadToHead(_, _)
HeadToHead(data, n) ==
    IF n = 0 THEN [code \in 1..NumTeammates |-> 0]
    ELSE [HeadToHead(data, n - 1) EXCEPT ![Best(data, n)] = @ + 1]

\* lines 1280-1285: the sessions of a round when a load raised
NoResults(round) == [loaded |-> FALSE, round |-> round, quali |-> <<>>, race |-> <<>>]

TmIdle ==
    /\ tm_pc = "idle"
    /\ tm_races = 0
    /\ tm_round = 0
    /\ tm_sessions = NoResults(0)
    /\ race_names = <<>>
    /\ qualifying_data = <<>>
    /\ race_data = <<>>
    /\ h2h_quali = <<>>
    /\ h2h_race = <<>>

\* lines 1265-1270: the schedule is fetched and the lists start empty
TmInit ==
    /\ tm_pc = "loop"
    /\ tm_races \in 0..MaxSeasonRaces
    /\ tm_round = 1
    /\ tm_sessions = NoResults(0)
    /\ race_names = <<>>
    /\ qualifying_data = [code \in 1..NumTeammates |-> <<>>]
    /\ race_data = [code \in 1..NumTeammates |-> <<>>]
    /\ h2h_quali = <<>>
    /\ h2h_race = <<>>

\* lines 1273-1313: one schedule row whose two sessions load
TmRace ==
    /\ tm_pc = "loop"
    /\ tm_round <= tm_races
    /\ \E quali \in ResultTables, race \in ResultTables :
        LET paired == PairedResults(NumTeammates, quali, race)
            stored == /\ Len(paired.quali_results) = NumTeammates
                      /\ Len(paired.race_results) = NumTeammates
        IN  /\ tm_sessions' = [loaded |-> TRUE, round |-> tm_round,
                               quali |-> quali, race |-> race]
            /\ race_names' = IF stored THEN Append(race_names, tm_round)
                             ELSE race_names
            /\ qualifying_data' =
                   IF stored THEN AppendResults(qualifying_data, paired.quali_results)
                   ELSE qualifying_data
            /\ race_data' =
                   IF stored THEN AppendResults(race_data, paired.race_results)
                   ELSE race_data
    /\ tm_round' = tm_round + 1
    /\ UNCHANGED <<tm_pc, tm_races, h2h_quali, h2h_race>>
    /\ TmFrame

\* lines 1280-1285 and 1315-1316: a session of the row fails to load; the
\* exception is printed and the loop goes on with the next row
TmRaceRaises ==
    /\ tm_pc = "loop"
    /\ tm_round <= tm_races
    /\ tm_sessions' = NoResults(tm_round)
    /\ tm_round' = tm_round + 1
    /\ UNCHANGED <<tm_pc, tm_races, race_names, qualifying_data, race_data,
                   h2h_quali, h2h_race>>
    /\ TmFrame

\* lines 1319-1321: no race was stored; the routine returns without a chart
TmReturn ==
    /\ tm_pc = "loop"
    /\ tm_round > tm_races
    /\ race_names = <<>>
    /\ tm_pc' = "returned"
    /\ UNCHANGED <<tm_races, tm_round, tm_sessions, race_names, qualifying_data,
                   race_data, h2h_quali, h2h_race>>
    /\ TmFrame

\* lines 1323-1428: the charts are drawn and the wins are counted
TmPlot ==
    /\ tm_pc = "loop"
    /\ tm_round > tm_races
    /\ race_names # <<>>
    /\ h2h_quali' = HeadToHead(qualifying_data, Len(race_names))
    /\ h2h_race' = HeadToHead(race_data, Len(race_names))
    /\ tm_pc' = "shown"
    /\ UNCHANGED <<tm_races, tm_round, tm_sessions, race_names, qualifying_data,
                   race_data>>
    /\ TmFrame

TmNext == TmRace \/ TmRaceRaises \/ TmReturn \/ TmPlot

(***************************************************************************)
(* plot_testing_pace (src/interface.py, lines 800-1000).                   *)
(***************************************************************************)
\* the driver codes of the testing session and of the dialog
TestDrivers == <<"VER", "HAM", "LEC">>

\* the lap numbers of the second driver's laps
OtherTestLaps == {{}, {1, 2}, {1, 2, 3}}

\* session.laps of a testing session: the first driver's laps have any lap
\* numbers up to MaxTestLap, the third driver has no lap
TestingLaps ==
    { [d \in Range(TestDrivers) |->
          IF d = "VER" THEN first ELSE IF d = "HAM" THEN second ELSE {}] :
      first \in SUBSET (1..MaxTestLap), second \in OtherTestLaps }

\* line 276: drivers_entry.get().split()
EnteredDrivers == {<<>>, <<"VER">>, <<"HAM", "VER">>, <<"LEC", "VER">>}

\* lines 823 and 891: session.laps['Driver'].unique(), the drivers with a lap
UniqueDrivers(laps) == SelectSeq(TestDrivers, LAMBDA d : laps[d] # {})

\* lines 825, 892 and 935: session.laps.pick_driver(driver)
PickDriver(laps, driver) == IF driver \in DOMAIN laps THEN laps[driver] ELSE {}

\* line 896: sorted(..., key=count, reverse=True) is stable: an item goes
\* behind the items with at least its count
RECURSIVE InsertByLaps(_, _)
InsertByLaps(item, s) ==
    IF s = <<>> THEN <<item>>
    ELSE IF s[1][2] >= item[2] THEN <<s[1]>> \o InsertByLaps(item, Tail(s))
    ELSE <<item>> \o s

\* lines 890-896: the lap counts of the first n session drivers, sorted
RECURSIVE SortedByLaps(_, _)
SortedByLaps(n, laps) ==
    IF n = 0 THEN <<>>
    ELSE LET driver == UniqueDrivers(laps)[n]
             lap_count == Cardinality(PickDriver(laps, driver))
         IN  InsertByLaps(<<driver, lap_count>>, SortedByLaps(n - 1, laps))

\* line 940: driver_laps.sort_values('LapNumber')
RECURSIVE SortValues(_)
SortValues(lap_numbers) ==
    IF lap_numbers = {} THEN <<>>
    ELSE LET first == MinOfSet(lap_numbers)
         IN  <<first>> \o SortValues(lap_numbers \ {first})

\* a stint of two laps passes for a stint
StintKeptFromTwo(current_stint) == Len(current_stint) >= 2

\* lines 952 and 961: len(current_stint) >= 3
StintKept(current_stint) == Len(current_stint) >= 3

\* lines 943-962: the loop over the sorted laps from lap k on; last_lap is
\* None before the first lap and the number of lap k - 1 after it
RECURSIVE DriverStintsFrom(_, _, _, _)
DriverStintsFrom(driver_laps, k, current_stint, driver_stints) ==
    IF k > Len(driver_laps)
    THEN IF StintKept(current_stint) THEN Append(driver_stints, current_stint)
         ELSE driver_stints
    ELSE LET lap_num == driver_laps[k]
         IN  IF k > 1 /\ lap_num > driver_laps[k - 1] + 1
             THEN DriverStintsFrom(driver_laps, k + 1, <<lap_num>>,
                      IF StintKept(current_stint)
                      THEN Append(driver_stints, current_stint)
                      ELSE driver_stints)
             ELSE DriverStintsFrom(driver_laps, k + 1,
                      Append(current_stint, lap_num), driver_stints)

DriverStints(driver_laps) == DriverStintsFrom(driver_laps, 1, <<>>, <<>>)

TpIdle ==
    /\ tp_pc = "idle"
    /\ testing_laps = [d \in Range(TestDrivers) |-> {}]
    /\ entered_drivers = <<>>
    /\ tp_drivers = <<>>
    /\ tp_fastest_laps = {}
    /\ sorted_by_laps = <<>>
    /\ tp_i = 0
    /\ tp_stints = <<>>

\* line 300 with line 276: plot_testing_pace(session, drivers) is called
TpInit ==
    /\ tp_pc = "fastest"
    /\ testing_laps \in TestingLaps
    /\ entered_drivers \in EnteredDrivers
    /\ tp_drivers = entered_drivers
    /\ tp_fastest_laps = {}
    /\ sorted_by_laps = <<>>
    /\ tp_i = 0
    /\ tp_stints = <<>>

\* lines 820-881: tab 1; a session driver has a fastest lap, or has none, or
\* the lookup raises and the driver is skipped
TpFastestLaps ==
    /\ tp_pc = "fastest"
    /\ tp_fastest_laps' \in SUBSET Range(UniqueDrivers(testing_laps))
    /\ tp_pc' = "count"
    /\ UNCHANGED <<testing_laps, entered_drivers, tp_drivers, sorted_by_laps,
                   tp_i, tp_stints>>
    /\ TpFrame

\* lines 890-923: tab 2; the unpacking of line 900 assigns the drivers of the
\* chart to the name drivers when there is an item
TpLapCount ==
    /\ tp_pc = "count"
    /\ LET items == SortedByLaps(Len(UniqueDrivers(testing_laps)), testing_laps)
       IN  /\ sorted_by_laps' = items
           /\ tp_drivers' = IF items # <<>>
                            THEN [k \in 1..Len(items) |-> items[k][1]]
                            ELSE tp_drivers
    /\ tp_i' = 1
    /\ tp_pc' = "stints"
    /\ UNCHANGED <<testing_laps, entered_drivers, tp_fastest_laps, tp_stints>>
    /\ TpFrame

\* lines 933-964: one driver of the stint loop; a driver without laps is
\* passed over
TpStintDriver ==
    /\ tp_pc = "stints"
    /\ tp_i <= Len(tp_drivers)
    /\ LET driver == tp_drivers[tp_i]
           driver_laps == PickDriver(testing_laps, driver)
       IN  tp_stints' =
               IF driver_laps = {} THEN tp_stints
               ELSE [d \in DOMAIN tp_stints \cup {driver} |->
                        IF d = driver THEN DriverStints(SortValues(driver_laps))
                        ELSE tp_stints[d]]
    /\ tp_i' = tp_i + 1
    /\ UNCHANGED <<tp_pc, testing_laps, entered_drivers, tp_drivers, tp_fastest_laps,
                   sorted_by_laps>>
    /\ TpFrame

\* lines 965-966: the driver's iteration raises; the status shows the error
TpStintDriverRaises ==
    /\ tp_pc = "stints"
    /\ tp_i <= Len(tp_drivers)
    /\ tp_i' = tp_i + 1
    /\ UNCHANGED <<tp_pc, testing_laps, entered_drivers, tp_drivers, tp_fastest_laps,
                   sorted_by_laps, tp_stints>>
    /\ TpFrame

\* lines 968-1000: tab 3 is drawn from stints
TpPlotStints ==
    /\ tp_pc = "stints"
    /\ tp_i > Len(tp_drivers)
    /\ tp_pc' = "shown"
    /\ UNCHANGED <<testing_laps, entered_drivers, tp_drivers, tp_fastest_laps,
                   sorted_by_laps, tp_i, tp_stints>>
    /\ TpFrame

TpNext ==
    \/ TpFastestLaps
    \/ TpLapCount
    \/ TpStintDriver
    \/ TpStintDriverRaises
    \/ TpPlotStints

(***************************************************************************)
(* export_data_to_csv (src/interface.py, lines 1141-1302).  A table is     *)
(* "none" (None), "empty" or "rows"; the car data of a driver's fastest    *)
(* lap is one of these, or "no_lap" (the driver has no fastest lap), or    *)
(* "raises" (the lookup raises).                                           *)
(***************************************************************************)
\* lines 1166-1172: the keys of export_options, in order
ExportKeys == <<"laps", "fastest_laps", "results", "car_data", "weather">>

ExportDriverCodes == <<"VER", "HAM">>

\* line 1264: the key of a driver's car data
CarDataKey(driver) == IF driver = "VER" THEN "car_data_VER" ELSE "car_data_HAM"

\* lines 1167-1171 and 1260-1262: the sessions; a session without laps has no
\* fastest lap of any driver
ExportSessions ==
    { s \in [laps : {"empty", "rows"}, results : {"none", "rows"},
             weather : {"empty", "rows"},
             car : [VER : {"raises", "no_lap", "rows"},
                    HAM : {"no_lap", "none", "empty", "rows"}]] :
        /\ s.laps = "empty" => s.car.VER # "rows" /\ s.car.HAM = "no_lap"
        /\ s.laps = "rows" => s.car.HAM # "no_lap" }

\* line 276: the drivers of the dialog
ExportDrivers == {<<>>, <<"VER", "HAM">>}

\* lines 1179-1188: the states of the five checkboxes at a click
Selections ==
    { Range(ExportKeys), {"laps"}, {"car_data"}, {"results", "weather"},
      {"fastest_laps", "car_data"}, {} }

\* lines 1167-1171: the data of an option; the fastest laps are picked from
\* the laps, the car data option holds None
OptionData(session, key) ==
    IF key = "laps" \/ key = "fastest_laps" THEN session.laps
    ELSE IF key = "results" THEN session.results
    ELSE IF key = "weather" THEN session.weather
    ELSE "none"

\* lines 1249-1252: the options selected whose data is not None, of the first n
RECURSIVE SelectedItems(_, _, _)
SelectedItems(n, session, selected) ==
    IF n = 0 THEN <<>>
    ELSE LET key == ExportKeys[n]
             data == OptionData(session, key)
             rest == SelectedItems(n - 1, session, selected)
         IN  IF key \in selected /\ data # "none"
             THEN Append(rest, [key |-> key, data |-> data])
             ELSE rest

\* an item is written whenever it has data, empty or not
IsNotNone(data) == data # "none"

\* line 1273: data is not None and not data.empty
HasRows(data) == data # "none" /\ data # "empty"

\* the export form is not open
ExIdle ==
    /\ ex_pc = "idle"
    /\ ex_runs = 0
    /\ ex_session = [laps |-> "empty", results |-> "none", weather |-> "empty",
                     car |-> [VER |-> "no_lap", HAM |-> "no_lap"]]
    /\ ex_drivers = <<>>
    /\ export_vars = {}
    /\ export_items = <<>>
    /\ ex_i = 0
    /\ ex_written = <<>>
    /\ progress_var = Zero
    /\ export_status = ""

\* lines 1141-1236 and 1296-1302: the export form is shown, every checkbox
\* selected, the progress at 0
ExInit ==
    /\ ex_pc = "ready"
    /\ ex_runs = 0
    /\ ex_session \in ExportSessions
    /\ ex_drivers \in ExportDrivers
    /\ export_vars = Range(ExportKeys)
    /\ export_items = <<>>
    /\ ex_i = 0
    /\ ex_written = <<>>
    /\ progress_var = Zero
    /\ export_status = "Ready to export data"

\* line 1299: the user sets the checkboxes and clicks the button;
\* perform_export starts
ExClick ==
    /\ ex_pc = "ready"
    /\ ex_runs < MaxExports
    /\ export_vars' \in Selections
    /\ ex_runs' = ex_runs + 1
    /\ ex_pc' = "collect"
    /\ export_items' = <<>>
    /\ ex_i' = 0
    /\ ex_written' = <<>>
    /\ UNCHANGED <<ex_session, ex_drivers, progress_var, export_status>>
    /\ ExFrame

\* lines 1292-1293: the outer handler
ExExcept ==
    /\ export_status' = "Error during export"
    /\ ex_pc' = "ready"
    /\ UNCHANGED progress_var

\* lines 1241-1255: the directory is made, which may raise, and the selected
\* options are collected
ExCollect ==
    /\ ex_pc = "collect"
    /\ \E made \in BOOLEAN :
         IF made
         THEN /\ export_items' =
                     SelectedItems(Len(ExportKeys), ex_session, export_vars)
              /\ ex_i' = 1
              /\ ex_pc' = IF "car_data" \in export_vars THEN "car_data" ELSE "export"
              /\ UNCHANGED <<progress_var, export_status>>
         ELSE /\ ExExcept
              /\ UNCHANGED <<export_items, ex_i>>
    /\ UNCHANGED <<ex_runs, ex_session, ex_drivers, export_vars, ex_written>>
    /\ ExFrame

\* lines 1257-1264: the car data of one selected driver
ExCarData ==
    /\ ex_pc = "car_data"
    /\ ex_i <= Len(ex_drivers)
    /\ LET driver == ex_drivers[ex_i]
           car_data == ex_session.car[driver]
       IN  /\ car_data # "raises"
           /\ export_items' =
                  IF car_data # "no_lap" /\ car_data # "none"
                  THEN Append(export_items,
                              [key |-> CarDataKey(driver), data |-> car_data])
                  ELSE export_items
    /\ ex_i' = ex_i + 1
    /\ UNCHANGED <<ex_pc, ex_runs, ex_session, ex_drivers, export_vars, ex_written,
                   progress_var, export_status>>
    /\ ExFrame

\* lines 1265-1266: the lookup raises; the status names the driver and the
\* loop goes on
ExCarDataRaises ==
    /\ ex_pc = "car_data"
    /\ ex_i <= Len(ex_drivers)
    /\ ex_session.car[ex_drivers[ex_i]] = "raises"
    /\ export_status' = "Error getting car data"
    /\ ex_i' = ex_i + 1
    /\ UNCHANGED <<ex_pc, ex_runs, ex_session, ex_drivers, export_vars,
                   export_items, ex_written, progress_var>>
    /\ ExFrame

\* line 1269: the car data loop is over
ExCarDataDone ==
    /\ ex_pc = "car_data"
    /\ ex_i > Len(ex_drivers)
    /\ ex_i' = 1
    /\ ex_pc' = "export"
    /\ UNCHANGED <<ex_runs, ex_session, ex_drivers, export_vars, export_items,
                   ex_written, progress_var, export_status>>
    /\ ExFrame

\* lines 1272-1286: one item; enumerate counts from 0, ex_i from 1
ExItem ==
    /\ ex_pc = "export"
    /\ ex_i <= Len(export_items)
    /\ LET item == export_items[ex_i]
       IN  IF HasRows(item.data)
           THEN /\ ex_written' = Append(ex_written, item.key)
                /\ export_status' = "Exporting"
                /\ progress_var' = Frac(ex_i, Len(export_items))
           ELSE UNCHANGED <<ex_written, export_status, progress_var>>
    /\ ex_i' = ex_i + 1
    /\ UNCHANGED <<ex_pc, ex_runs, ex_session, ex_drivers, export_vars, export_items>>
    /\ ExFrame

\* lines 1278-1282 and 1292-1293: to_csv raises
ExItemRaises ==
    /\ ex_pc = "export"
    /\ ex_i <= Len(export_items)
    /\ HasRows(export_items[ex_i].data)
    /\ ExExcept
    /\ UNCHANGED <<ex_runs, ex_session, ex_drivers, export_vars, export_items,
                   ex_i, ex_written>>
    /\ ExFrame

\* lines 1289-1290: the export is complete
ExComplete ==
    /\ ex_pc = "export"
    /\ ex_i > Len(export_items)
    /\ export_status' = "Export complete"
    /\ progress_var' = Frac(1, 1)
    /\ ex_pc' = "ready"
    /\ UNCHANGED <<ex_runs, ex_session, ex_drivers, export_vars, export_items,
                   ex_i, ex_written>>
    /\ ExFrame

ExNext ==
    \/ ExClick
    \/ ExCollect
    \/ ExCarData
    \/ ExCarDataRaises
    \/ ExCarDataDone
    \/ ExItem
    \/ ExItemRaises
    \/ ExComplete

(***************************************************************************)
(* plot_race_history (src/functions.py, lines 374-449) in floating-point   *)
(* arithmetic, for the winner's own line.  The float64 of the code is a    *)
(* binary format of FloatBits significant bits here, every operation       *)
(* rounded to the nearest value, ties to the even one; the values are      *)
(* whole numbers (the smallest spacing is 1).                              *)
(***************************************************************************)
\* the spacing of the format at num / den >= 0, searched from u upwards
RECURSIVE UlpFrom(_, _, _)
UlpFrom(num, den, u) ==
    IF num >= Pow2(FloatBits) * u * den THEN UlpFrom(num, den, 2 * u) ELSE u

Ulp(num, den) == UlpFrom(num, den, 1)

\* an arithmetic that does not round: the quotient is cut off
FloatExact(num, den) == (IF num < 0 THEN 0 - 1 ELSE 1) * (Abs(num) \div den)

\* the result of a float64 operation whose exact value is num / den
FloatRound(num, den) ==
    LET a == Abs(num)
        u == Ulp(a, den)
        q == a \div (den * u)
        r == a - q * den * u
        up == 2 * r > den * u \/ (2 * r = den * u /\ q % 2 = 1)
    IN  (IF num < 0 THEN 0 - 1 ELSE 1) * (IF up THEN q + 1 ELSE q) * u

\* a + b, a - b, a * i and a / n on floats
FloatAdd(a, b) == IF IsNaN(a) \/ IsNaN(b) THEN NaN ELSE Num(FloatRound(a.v + b.v, 1))

FloatSub(a, b) == IF IsNaN(a) \/ IsNaN(b) THEN NaN ELSE Num(FloatRound(a.v - b.v, 1))

FloatMul(a, i) == IF IsNaN(a) THEN NaN ELSE Num(FloatRound(a.v * i, 1))

FloatDiv(a, n) == IF IsNaN(a) THEN NaN ELSE Num(FloatRound(a.v, n))

\* the lap durations of the winner: missing, non-positive or positive
WinnerLapTimes == {NaN, Num(0 - 1), Num(4), Num(5), Num(6)}

\* lines 426 and 396: np.cumsum, and the sum np.mean takes, add the items in
\* order (fewer than 8 items)
RECURSIVE FloatCumsum(_)
FloatCumsum(times) ==
    IF times = <<>> THEN <<>>
    ELSE LET n == Len(times)
             front == FloatCumsum(SubSeq(times, 1, n - 1))
         IN  Append(front, IF n = 1 THEN times[1] ELSE FloatAdd(front[n - 1], times[n]))

\* line 396: np.mean
FloatMean(times) == FloatDiv(FloatCumsum(times)[Len(times)], Len(times))

\* lines 390-401
FloatReference(laps, race_time) ==
    LET winner_lap_times == SelectSeq(laps, IsPositive)
    IN  IF Len(winner_lap_times) > 0 THEN FloatMean(winner_lap_times)
        ELSE FloatDiv(race_time, TotalLaps)

\* lines 417-419
RECURSIVE FloatInterpolateFrom(_, _)
FloatInterpolateFrom(times, i) ==
    IF i > Len(times) - 1 THEN times
    ELSE FloatInterpolateFrom(
            IF IsNonPositive(times[i])
            THEN [times EXCEPT ![i] = FloatDiv(FloatAdd(times[i - 1], times[i + 1]), 2)]
            ELSE times,
            i + 1)

\* lines 413-433: the iteration of the driver loop
FloatHistory(laps, reference) ==
    LET corrected == FloatInterpolateFrom(laps, 2)
        lap_time == Mask(corrected, ValidIndices(corrected))
        cumulative == FloatCumsum(lap_time)
    IN  [lap_times |-> lap_time,
         delta |-> [i \in 1..Len(lap_time) |->
                       FloatSub(FloatMul(reference, i), cumulative[i])]]

WdIdle ==
    /\ wd_pc = "idle"
    /\ wd_laps = <<>>
    /\ wd_race_time = NaN
    /\ wd_reference = NaN
    /\ wd_lap_times = <<>>
    /\ wd_delta = <<>>

\* lines 381-387: the session of the call
WdInit ==
    /\ wd_pc = "start"
    /\ wd_laps \in SeqsUpTo(WinnerLapTimes, MaxFloatLaps)
    /\ wd_race_time \in {NaN, Num(24)}
    /\ wd_reference = NaN
    /\ wd_lap_times = <<>>
    /\ wd_delta = <<>>

\* lines 386-401: the reference pace
WdReference ==
    /\ wd_pc = "start"
    /\ wd_reference' = FloatReference(wd_laps, wd_race_time)
    /\ wd_pc' = "loop"
    /\ UNCHANGED <<wd_laps, wd_race_time, wd_lap_times, wd_delta>>
    /\ WdFrame

\* lines 404-449: the iteration of the winner, the first driver of the
\* results; without laps the driver is passed over
WdWinner ==
    /\ wd_pc = "loop"
    /\ LET result == FloatHistory(wd_laps, wd_reference)
       IN  /\ wd_lap_times' = IF wd_laps = <<>> THEN <<>> ELSE result.lap_times
           /\ wd_delta' = IF wd_laps = <<>> THEN <<>> ELSE result.delta
    /\ wd_pc' = "done"
    /\ UNCHANGED <<wd_laps, wd_race_time, wd_reference>>
    /\ WdFrame

\* lines 445-446: the iteration raises (no colour for the driver); nothing
\* is drawn for the winner
WdWinnerRaises ==
    /\ wd_pc = "loop"
    /\ wd_pc' = "done"
    /\ UNCHANGED <<wd_laps, wd_race_time, wd_reference, wd_lap_times, wd_delta>>
    /\ WdFrame

WdNext == WdReference \/ WdWinner \/ WdWinnerRaises

(***************************************************************************)
(* Specifications: one per routine; the other routines stay idle.          *)
(***************************************************************************)
InitMean ==
    MeanInit /\ HistIdle /\ OvIdle /\ AnIdle /\ LrIdle /\ LtIdle /\ TdIdle
    /\ TmIdle /\ TpIdle /\ ExIdle /\ WdIdle

SpecMean == InitMean /\ [][MeanNext]_vars

InitHistory ==
    HistInit /\ MeanIdle /\ OvIdle /\ AnIdle /\ LrIdle /\ LtIdle /\ TdIdle
    /\ TmIdle /\ TpIdle /\ ExIdle /\ WdIdle

SpecHistory == InitHistory /\ [][HistNext]_vars

InitOvertakes ==
    OvInit /\ MeanIdle /\ HistIdle /\ AnIdle /\ LrIdle /\ LtIdle /\ TdIdle
    /\ TmIdle /\ TpIdle /\ ExIdle /\ WdIdle

SpecOvertakes == InitOvertakes /\ [][OvNext]_vars

InitAnalyze ==
    AnInit /\ MeanIdle /\ HistIdle /\ OvIdle /\ LrIdle /\ LtIdle /\ TdIdle
    /\ TmIdle /\ TpIdle /\ ExIdle /\ WdIdle

SpecAnalyze == InitAnalyze /\ [][AnNext]_vars

InitLongRuns ==
    LrInit /\ MeanIdle /\ HistIdle /\ OvIdle /\ AnIdle /\ LtIdle /\ TdIdle
    /\ TmIdle /\ TpIdle /\ ExIdle /\ WdIdle

SpecLongRuns == InitLongRuns /\ [][LrNext]_vars

InitLapTimes ==
    LtInit /\ MeanIdle /\ HistIdle /\ OvIdle /\ AnIdle /\ LrIdle /\ TdIdle
    /\ TmIdle /\ TpIdle /\ ExIdle /\ WdIdle

SpecLapTimes == InitLapTimes /\ [][LtNext]_vars

InitTeamDevelopment ==
    TdInit /\ MeanIdle /\ HistIdle /\ OvIdle /\ AnIdle /\ LrIdle /\ LtIdle
    /\ TmIdle /\ TpIdle /\ ExIdle /\ WdIdle

SpecTeamDevelopment == InitTeamDevelopment /\ [][TdNext]_vars

InitTeammates ==
    TmInit /\ MeanIdle /\ HistIdle /\ OvIdle /\ AnIdle /\ LrIdle /\ LtIdle
    /\ TdIdle /\ TpIdle /\ ExIdle /\ WdIdle

SpecTeammates == InitTeammates /\ [][TmNext]_vars

InitTestingPace ==
    TpInit /\ MeanIdle /\ HistIdle /\ OvIdle /\ AnIdle /\ LrIdle /\ LtIdle
    /\ TdIdle /\ TmIdle /\ ExIdle /\ WdIdle

SpecTestingPace == InitTestingPace /\ [][TpNext]_vars

InitExport ==
    ExInit /\ MeanIdle /\ HistIdle /\ OvIdle /\ AnIdle /\ LrIdle /\ LtIdle
    /\ TdIdle /\ TmIdle /\ TpIdle /\ WdIdle

SpecExport == InitExport /\ [][ExNext]_vars

InitWinnerDelta ==
    WdInit /\ MeanIdle /\ HistIdle /\ OvIdle /\ AnIdle /\ LrIdle /\ LtIdle
    /\ TdIdle /\ TmIdle /\ TpIdle /\ ExIdle

SpecWinnerDelta == InitWinnerDelta /\ [][WdNext]_vars

(***************************************************************************)
(* Claims about functions.plot_mean_lap_time, checked under SpecMean.      *)
(* They speak of the last iteration of the driver loop: lap_times is its   *)
(* input and LastMean the mean it stored.                                  *)
(***************************************************************************)
LastMean == mean_lap_times[Len(mean_lap_times)]

Computed == mean_i > 1 /\ ~raised

\* the k-th smallest element of s (k = 1 the smallest), by counting
KthSmallest(s, k) ==
    CHOOSE v \in Range(s) :
        /\ Cardinality({i \in 1..Len(s) : s[i] < v}) < k
        /\ k <= Cardinality({i \in 1..Len(s) : s[i] <= v})

\* four times the q-th quartile: the point (n-1)*q/4 of the way through the
\* order statistics, linearly interpolated between the two next to it
Quartile4(s, q) ==
    LET pos == (Len(s) - 1) * q
        k   == pos \div 4 + 1
        w   == pos % 4
    IN  (4 - w) * KthSmallest(s, k)
        + (IF w = 0 THEN 0 ELSE w * KthSmallest(s, k + 1))

\* eight times the bounds Q1 - 1.5*IQR and Q3 + 1.5*IQR
LowerBound8(s) == 2 * Quartile4(s, 1) - 3 * (Quartile4(s, 3) - Quartile4(s, 1))

UpperBound8(s) == 2 * Quartile4(s, 3) + 3 * (Quartile4(s, 3) - Quartile4(s, 1))

\* the positions of s whose value lies within the bounds, both inclusive
Retained(s) ==
    {i \in 1..Len(s) : LowerBound8(s) <= 8 * s[i] /\ 8 * s[i] <= UpperBound8(s)}

RECURSIVE SumOver(_, _)
SumOver(s, I) ==
    IF I = {} THEN 0
    ELSE LET i == CHOOSE x \in I : TRUE IN s[i] + SumOver(s, I \ {i})

\* C1: for a driver with n lap times, when n >= 4 the stored mean is the sum
\* of exactly the lap times within [Q1 - 1.5*IQR, Q3 + 1.5*IQR] (inclusive)
\* divided by their number; when 1 <= n <= 3 it is the sum of all n lap
\* times divided by n.
C1_IqrFilteredMean ==
    Computed =>
        /\ Len(lap_times) >= 4 =>
              /\ LastMean.den = Cardinality(Retained(lap_times))
              /\ LastMean.num = SumOver(lap_times, Retained(lap_times))
        /\ Len(lap_times) \in 1..3 =>
              /\ LastMean.den = Len(lap_times)
              /\ LastMean.num = SumOver(lap_times, 1..Len(lap_times))

\* four lap times, quartiles interpolated between laps, one lap time rejected
C1_Witness ==
    /\ Computed
    /\ Len(lap_times) = 4
    /\ Quartile4(lap_times, 1) % 4 # 0
    /\ Cardinality(Retained(lap_times)) = 3
    /\ LastMean.den = 3

\* C6: a driver without lap times gets the mean 0, the iteration does not
\* end in the except clause, and the loop goes on: the routine ends with an
\* entry for every driver.
C6_EmptyInputSentinel ==
    /\ (Computed /\ lap_times = <<>>) => LastMean = Zero
    /\ \A d \in DOMAIN driver_info : driver_info[d] = 0 => mean_lap_times[d] = Zero
    /\ mean_pc = "done" => Len(mean_lap_times) = NumDrivers

\* the first driver has no lap times, the second one is charted
C6_Witness ==
    /\ mean_pc = "done"
    /\ 1 \in DOMAIN driver_info
    /\ driver_info[1] = 0
    /\ mean_lap_times[1] = Zero
    /\ sorted_drivers = <<2>>

\* C7: for n >= 4 lap times the stored mean lies within
\* [Q1 - 1.5*IQR, Q3 + 1.5*IQR] and within [min, max] of the retained times.
C7_MeanWithinBounds ==
    (Computed /\ Len(lap_times) >= 4) =>
        LET kept == {lap_times[i] : i \in Retained(lap_times)}
        IN  /\ LastMean.den > 0
            /\ LowerBound8(lap_times) * LastMean.den <= 8 * LastMean.num
            /\ 8 * LastMean.num <= UpperBound8(lap_times) * LastMean.den
            /\ kept # {}
            /\ MinOfSet(kept) * LastMean.den <= LastMean.num
            /\ LastMean.num <= MaxOfSet(kept) * LastMean.den

\* five lap times of which one is rejected as an outlier
C7_Witness ==
    /\ Computed
    /\ Len(lap_times) = 5
    /\ Cardinality(Retained(lap_times)) = 4
    /\ MaxOfSet(Range(lap_times)) * LastMean.den > LastMean.num
    /\ 8 * MaxOfSet(Range(lap_times)) > UpperBound8(lap_times)

\* C8 (its case does not arise): with four or more quick-lap times the IQR
\* filter always retains a lap time, so line 116 never falls back to the
\* unfiltered mean.
C8_FilterRetainsSome ==
    (Computed /\ Len(lap_times) >= 4) => IqrFilter(lap_times) # <<>>

(***************************************************************************)
(* Claims about plot_race_history, checked under SpecHistory.  For a       *)
(* driver d with a drawn line, plotted[d].corrected is the lap-time array  *)
(* after the correction pass, .lap_times the array handed to the           *)
(* cumulative sum, .lap_numbers the x values and .delta the y values.      *)
(***************************************************************************)
RawTimes(d) == LapTimeColumn(session_laps[d])

IsInvalid(t) == IsNaN(t) \/ t.v <= 0

RECURSIVE SumFirst(_, _)
SumFirst(times, i) == IF i = 0 THEN 0 ELSE times[i].v + SumFirst(times, i - 1)

\* the fraction a equals reference * i - total
IsDeltaOf(a, reference, i, total) ==
    /\ a.den > 0
    /\ reference.den > 0
    /\ a.num * reference.den = (reference.num * i - total * reference.den) * a.den

\* C2: for each driver the delta drawn for the i-th lap of the sequence
\* that is summed equals reference_pace * i minus the sum of the durations
\* of laps 1..i, whatever the lap numbers are, in both routines.
C2_DeltaByLapIndex ==
    \A d \in DOMAIN plotted :
        LET p == plotted[d]
        IN  /\ Len(p.delta) = Len(p.lap_times)
            /\ \A i \in 1..Len(p.lap_times) :
                  (/\ ~FracIsNaN(reference_lap_time)
                   /\ \A k \in 1..i : ~IsNaN(p.lap_times[k]))
                  => IsDeltaOf(p.delta[i], reference_lap_time, i, SumFirst(p.lap_times, i))

\* C3: every interior lap duration that is non-positive or missing is
\* replaced, in the pass, by the average of the durations then at the
\* positions before and after it.
C3_InteriorInvalidReplaced ==
    \A d \in DOMAIN plotted :
        LET raw == RawTimes(d)
            c   == plotted[d].corrected
        IN  /\ Len(c) = Len(raw)
            /\ \A i \in 2..(Len(raw) - 1) :
                  IsInvalid(raw[i]) => c[i] = Average(c[i - 1], raw[i + 1])

\* the first and the last lap are as in the session, and so is every lap
\* with a positive duration
OnlyThePassAdjusts(d) ==
    LET raw == RawTimes(d)
        c   == plotted[d].corrected
    IN  /\ Len(c) = Len(raw)
        /\ c[1] = raw[1]
        /\ c[Len(raw)] = raw[Len(raw)]
        /\ \A i \in 1..Len(raw) : ~IsInvalid(raw[i]) => c[i] = raw[i]

AllLapsSummed(d) ==
    /\ plotted[d].lap_times = plotted[d].corrected
    /\ plotted[d].lap_numbers = LapNumberColumn(session_laps[d])

\* the laps summed are the laps whose corrected duration is positive, in
\* lap order, each with its lap number
PositiveLapsSummed(d) ==
    LET c    == plotted[d].corrected
        keep == {i \in 1..Len(c) : ~IsInvalid(c[i])}
        at(j) == CHOOSE i \in keep : Cardinality({k \in keep : k <= i}) = j
    IN  /\ Len(plotted[d].lap_times) = Cardinality(keep)
        /\ Len(plotted[d].lap_numbers) = Cardinality(keep)
        /\ \A j \in 1..Cardinality(keep) :
              /\ plotted[d].lap_times[j] = c[at(j)]
              /\ plotted[d].lap_numbers[j] = session_laps[d][at(j)].LapNumber

\* C4 as claimed: boundary laps are not corrected, nothing but the pass
\* adjusts the sequence, and every lap keeps its position in the sequence
\* that is summed.
C4_EveryLapKeepsItsPosition ==
    \A d \in DOMAIN plotted : OnlyThePassAdjusts(d) /\ AllLapsSummed(d)

\* C4 as amended: boundary laps are not corrected and nothing but the pass
\* changes a duration; interface.py sums every lap in its position, while
\* functions.py removes, after the pass, every lap whose duration is still
\* not positive (boundary laps included) together with its lap number.
C4_PassThenPositiveLaps ==
    \A d \in DOMAIN plotted :
        /\ OnlyThePassAdjusts(d)
        /\ hist_impl = "interface" => AllLapsSummed(d)
        /\ hist_impl = "functions" => PositiveLapsSummed(d)

\* functions.py drops an invalid first lap of the second driver and keeps
\* the two laps after it
C4_Witness ==
    /\ hist_impl = "functions"
    /\ 2 \in DOMAIN plotted
    /\ Len(session_laps[2]) = 3
    /\ IsInvalid(RawTimes(2)[1])
    /\ plotted[2].corrected[1] = RawTimes(2)[1]
    /\ Len(plotted[2].lap_times) = 2
    /\ plotted[2].lap_numbers = <<session_laps[2][2].LapNumber, session_laps[2][3].LapNumber>>

\* C5: a driver whose n >= 1 lap durations all equal the reference pace has
\* delta zero at every lap.
C5_ConstantPaceZeroDelta ==
    \A d \in DOMAIN plotted :
        LET raw == RawTimes(d)
        IN  (/\ ~FracIsNaN(reference_lap_time)
             /\ \A i \in 1..Len(raw) :
                   /\ ~IsNaN(raw[i])
                   /\ raw[i].v * reference_lap_time.den = reference_lap_time.num)
            => /\ Len(plotted[d].delta) = Len(raw)
               /\ \A i \in 1..Len(raw) :
                     plotted[d].delta[i].den > 0 /\ plotted[d].delta[i].num = 0

(***************************************************************************)
(* Claim about the error policy of the per-item loops, checked under       *)
(* SpecOvertakes.                                                          *)
(***************************************************************************)
\* C9: a failure while processing one driver never prevents the remaining
\* drivers from being processed and the chart from being rendered: no
\* exception raised in a per-driver loop leaves the routine.  (An exception
\* leaves analyze_overtakes before its loops when the session has no lap.)
C9_ItemFailureNeverAborts ==
    /\ raised => (mean_pc \in {"loop", "done"} /\ Len(mean_lap_times) = mean_i - 1)
    /\ ov_pc = "raised" => LapCount(ov_laps) = 0

(***************************************************************************)
(* Claim about the Analyze handler, checked under SpecAnalyze.             *)
(***************************************************************************)
IsPrefix(s, t) == Len(s) <= Len(t) /\ \A i \in 1..Len(s) : s[i] = t[i]

RequestSteps == <<"get_session", "load", "analysis", "success">>

StepsInOrder ==
    /\ IsPrefix(an_steps, RequestSteps)
    /\ an_pc = "load" => (an_steps = <<"get_session">> /\ an_session = "obtained")
    /\ an_pc = "analysis" => (an_steps = <<"get_session", "load">> /\ an_session = "loaded")
    /\ an_pc = "report" => an_steps = <<"get_session", "load", "analysis">>
    /\ invoked_with \in {"none", "loaded"}
    /\ progress_bar = 10 => (an_steps = RequestSteps /\ an_pc = "idle")
    /\ status_label = "Analysis completed successfully!" => progress_bar = 10

\* C10: within one Analyze request the session is obtained, then loaded,
\* then the analysis function is invoked and returns, and only then is
\* progress set to 1.0 and success reported; the analysis function never
\* receives a session that is not loaded; and a request starts only when no
\* request is in progress.
C10_SequentialRequest ==
    /\ []StepsInOrder
    /\ [][requests' # requests => (an_pc = "idle" /\ an_pc' = "get_session")]_vars

\* a second request has run to its success report
C10_Witness ==
    /\ requests = 2
    /\ an_pc = "idle"
    /\ progress_bar = 10
    /\ invoked_with = "loaded"
    /\ an_steps = RequestSteps


(***************************************************************************)
(* Claims about the error path of on_analyze, checked under SpecAnalyze.   *)
(***************************************************************************)
\* a step of the handler that ends in the except clause of lines 310-313
ExceptStep == an_pc \in {"get_session", "load", "analysis"} /\ an_pc' = "idle"

\* C11 as stated: whenever the dialog shows an error, no close of the dialog
\* is scheduled, so the dialog stays open.
C11_NoCloseAfterError == status_label = "Error: ..." => ~close_scheduled

\* C11 amended: every exception of a request (field parsing, session lookup,
\* load, analysis function) ends the handler in the same way: progress 0,
\* "Error: ..." in the dialog, the error in the main status bar, no retry
\* (no step of the request is run again), the handler schedules no close
\* and leaves the dialog open, and an exception before the analysis step
\* leaves the analysis function uninvoked.  A close scheduled by an earlier
\* successful request stays pending.
C11_ErrorHandledUniformly ==
    [][ExceptStep =>
         /\ progress_bar' = 0
         /\ status_label' = "Error: ..."
         /\ main_status' = "Error in analysis: ..."
         /\ close_scheduled' = close_scheduled
         /\ details_window' = "open"
         /\ requests' = requests
         /\ an_steps' = an_steps
         /\ an_pc # "analysis" => invoked_with' = invoked_with]_vars

\* a request failed before the analysis step: the error is shown, the dialog
\* is open and the analysis function was never invoked
C11_Witness ==
    /\ an_pc = "idle"
    /\ status_label = "Error: ..."
    /\ progress_bar = 0
    /\ main_status = "Error in analysis: ..."
    /\ details_window = "open"
    /\ invoked_with = "none"
    /\ an_session = "obtained"


ValidTimes(k) ==
    LET raw == [i \in 1..Len(lr_stints[k]) |-> lr_stints[k][i].LapTime]
    IN  [i \in 1..Cardinality({j \in 1..Len(raw) : ~IsNaN(raw[j])}) |->
           raw[CHOOSE j \in 1..Len(raw) :
                 /\ ~IsNaN(raw[j])
                 /\ Cardinality({m \in 1..j : ~IsNaN(raw[m])}) = i].v]

\* how many lap times of stint k remain after NaN removal and, for more than
\* 5 valid lap times, the outlier filter
PointsLeft(k) ==
    IF Len(ValidTimes(k)) > 5 THEN Cardinality(Retained(ValidTimes(k)))
    ELSE Len(ValidTimes(k))

\* C13: a stint gets a slope and a regression line only when at least 3
\* valid lap times remain in it after NaN removal and outlier filtering; a
\* stint left with fewer than 3 points gets neither.
C13_SlopeNeedsThreePoints ==
    \A k \in DOMAIN lr_drawn :
        /\ (lr_drawn[k].regression \/ ~FracIsNaN(lr_drawn[k].slope)) => PointsLeft(k) >= 3
        /\ PointsLeft(k) < 3 => ~lr_drawn[k].regression /\ FracIsNaN(lr_drawn[k].slope)

\* a long stint drawn with two points and no slope, and a stint with a slope
C13_Witness ==
    /\ lr_pc = "done"
    /\ \E k \in DOMAIN lr_drawn :
          lr_drawn[k].drawn /\ PointsLeft(k) = 2 /\ ~lr_drawn[k].regression
    /\ \E k \in DOMAIN lr_drawn :
          lr_drawn[k].regression /\ Len(ValidTimes(k)) > 5 /\ PointsLeft(k) < Len(ValidTimes(k))


(***************************************************************************)
(* Claim about the order of the neighbour-averaging pass, checked under    *)
(* SpecHistory.                                                            *)
(***************************************************************************)
\* C14: the pass goes once from left to right, in place: for two adjacent
\* invalid (non-positive or missing) interior laps i and i+1, lap i becomes
\* the average of the corrected lap i-1 and the raw lap i+1, lap i+1 becomes
\* the average of the corrected lap i and the raw lap i+2, and neither is
\* visited again, whatever its replacement is.
C14_SinglePassLeftToRight ==
    \A d \in DOMAIN plotted :
        LET raw == RawTimes(d)
            c   == plotted[d].corrected
        IN  \A i \in 2..(Len(raw) - 2) :
              (IsInvalid(raw[i]) /\ IsInvalid(raw[i + 1])) =>
                  /\ c[i] = Average(c[i - 1], raw[i + 1])
                  /\ c[i + 1] = Average(c[i], raw[i + 2])


(***************************************************************************)
(* Claim about functions.plot_lap_times, checked under SpecLapTimes.       *)
(***************************************************************************)
\* C15: a fastest-lap marker is only on a lap that is the fastest of all
\* laps of all selected drivers: in no chart, for no order of the drivers,
\* is a lap marked when a line of the chart holds a strictly faster lap.
C15_MarkerOnlyOnFastest ==
    lt_pc = "done" =>
        \A m \in lt_markers : \A c \in DOMAIN lt_lines :
            c[1] = m.chart =>
                \A k \in 1..Len(lt_lines[c].lap_time) : lt_lines[c].lap_time[k] >= m.lap_time


(***************************************************************************)
(* Claim about the chart of functions.plot_mean_lap_time, checked under    *)
(* SpecMean.                                                               *)
(***************************************************************************)
\* C16: the drivers charted are exactly the drivers whose mean lap time is
\* > 0, each once, in ascending order of mean lap time; the gap axis counts
\* from the mean of the first driver, the smallest, which it labels "Leader".
C16_ChartedAscendingFromLeader ==
    mean_pc = "done" =>
        LET n == Len(sorted_drivers)
            m == mean_lap_times
        IN  /\ Range(sorted_drivers) = {d \in 1..NumDrivers : m[d].den > 0 /\ m[d].num > 0}
            /\ Cardinality(Range(sorted_drivers)) = n
            /\ \A k \in 1..(n - 1) :
                  m[sorted_drivers[k]].num * m[sorted_drivers[k + 1]].den
                    <= m[sorted_drivers[k + 1]].num * m[sorted_drivers[k]].den
            /\ n > 0 =>
                  /\ fastest_time = m[sorted_drivers[1]]
                  /\ \A d \in Range(sorted_drivers) :
                        FormatGap(m[d], fastest_time) = "Leader"
                          <=> m[d].num * fastest_time.den = fastest_time.num * m[d].den

\* a chart of both drivers in which the second driver of the session leads
C16_Witness ==
    /\ mean_pc = "done"
    /\ sorted_drivers = <<2, 1>>
    /\ FormatGap(mean_lap_times[2], fastest_time) = "Leader"
    /\ FormatGap(mean_lap_times[1], fastest_time) = "+gap"


(***************************************************************************)
(* Claims about the grid and the markers of functions.analyze_overtakes,   *)
(* checked under SpecOvertakes.                                            *)
(***************************************************************************)
\* the positions the session records for driver d on lap j: none or one
Recorded(d, j) ==
    {ov_laps[d][k].Position.v :
       k \in {x \in 1..Len(ov_laps[d]) :
                ov_laps[d][x].LapNumber = j /\ ~IsNaN(ov_laps[d][x].Position)}}

Filled == ov_pc \in {"render", "done"}

\* C17: after the gap-filling pass a cell with a recorded position holds
\* it; a cell of lap j > 1 without one holds what the cell of lap j-1
\* holds, which is the nearest earlier recorded position; and a cell is 0
\* only if the driver has no recorded position on that lap or before it.
C17_GapsCarriedForward ==
    Filled =>
        \A d \in 1..NumDrivers : \A j \in 1..LapCount(ov_laps) :
            LET cell    == overtakes_grid[d][j]
                earlier == {k \in 1..j : Recorded(d, k) # {}}
            IN  /\ Recorded(d, j) # {} => Recorded(d, j) = {cell}
                /\ (Recorded(d, j) = {} /\ j > 1) => cell = overtakes_grid[d][j - 1]
                /\ earlier # {} => Recorded(d, MaxOfSet(earlier)) = {cell}
                /\ cell = 0 => earlier = {}

\* a position recorded on lap 1 is carried over two laps without a record
C17_Witness ==
    /\ Filled
    /\ \E d \in 1..NumDrivers :
          /\ LapCount(ov_laps) >= 3
          /\ Recorded(d, 1) # {}
          /\ Recorded(d, 2) = {}
          /\ Recorded(d, 3) = {}
          /\ Recorded(d, 1) = {overtakes_grid[d][3]}

\* C18: a marker is drawn for a driver between two consecutive laps only
\* for a change of more than 1 place, annotated only for more than 2, up
\* and green for places gained, down and red for places lost; and every
\* marker is a change between two recorded positions: neither of the two
\* cells is the 0 of a lap without a recorded position.
C18_MarkersBetweenRecordedPositions ==
    ov_pc = "done" =>
        \A m \in ov_markers :
            LET before == overtakes_grid[m.driver][m.lap - 1]
                after  == overtakes_grid[m.driver][m.lap]
            IN  /\ Abs(before - after) > 1
                /\ m.annotated <=> Abs(before - after) > 2
                /\ (m.marker = "^" /\ m.color = "green") <=> after < before
                /\ (m.marker = "v" /\ m.color = "red") <=> after > before
                /\ before # 0
                /\ after # 0


(***************************************************************************)
(* Claims about functions.analyze_team_development, checked under          *)
(* SpecTeamDevelopment.                                                    *)
(***************************************************************************)
\* C19: with fewer than 3 races all races are analysed; with n >= 3 races
\* the 6 schedule indices floor(k*(n-1)/5), k = 0..5, are selected, and
\* they are strictly increasing: no race is selected twice.
C19_SelectedStrictlyIncreasing ==
    td_pc \in {"loop", "done"} /\ race_count > 0 =>
        LET n == race_count
        IN  /\ n < 3 => selected_races = [k \in 1..n |-> k - 1]
            /\ n >= 3 =>
                  /\ Len(selected_races) = 6
                  /\ \A k \in 0..5 :
                        /\ 5 * selected_races[k + 1] <= k * (n - 1)
                        /\ k * (n - 1) < 5 * selected_races[k + 1] + 5
                  /\ \A k \in 1..5 : selected_races[k] < selected_races[k + 1]

\* the fastest-lap times the drivers of a team got in the last session
TeamTimes(team) ==
    {td_session.fastest_laps[d].v :
       d \in {x \in 1..Len(TdDrivers) :
                TeamName[x] = team /\ td_session.fastest_laps[x] # None}}

Teams == {TeamName[d] : d \in 1..Len(TdDrivers)}

\* what the last iteration stored at its race index
LastRaceStored ==
    td_i > 0 =>
        IF ~td_session.loaded
        THEN \A t \in DOMAIN team_data : team_data[t][td_i] = None
        ELSE \A t \in Teams :
                IF TeamTimes(t) = {}
                THEN t \in DOMAIN team_data => team_data[t][td_i] = None
                ELSE /\ t \in DOMAIN team_data
                     /\ team_data[t][td_i] = Some(MinOfSet(TeamTimes(t)))

\* the races not yet analysed hold None
LaterRacesEmpty ==
    \A t \in DOMAIN team_data : \A k \in (td_i + 1)..Len(selected_races) :
        team_data[t][k] = None

\* every gap is >= 0, and a race with a stored time has a team at gap 0
GapsFromFastest ==
    td_pc = "done" =>
        /\ DOMAIN normalized_data = DOMAIN team_data
        /\ \A t \in DOMAIN team_data : \A k \in 1..Len(selected_races) :
              /\ FracIsNaN(normalized_data[t][k]) <=> team_data[t][k] = None
              /\ ~FracIsNaN(normalized_data[t][k]) =>
                    /\ normalized_data[t][k].den > 0
                    /\ normalized_data[t][k].num >= 0
        /\ \A k \in 1..Len(selected_races) :
              (\E t \in DOMAIN team_data : team_data[t][k] # None) =>
                  \E t \in DOMAIN team_data :
                      normalized_data[t][k].den > 0 /\ normalized_data[t][k].num = 0

\* no step changes what an earlier iteration stored, and a team met for the
\* first time holds None for the earlier races
EarlierRacesKept ==
    \A t \in DOMAIN team_data' : \A k \in 1..td_i :
        team_data'[t][k] = IF t \in DOMAIN team_data THEN team_data[t][k] ELSE None

\* C20: for every analysed race the time stored for a team is the minimum
\* of the fastest-lap times of the team's drivers, in whatever order the
\* drivers come; so every normalized gap is >= 0 and every race with a
\* stored time has a team at gap exactly 0; a race whose session failed to
\* load holds None for every team.
C20_TeamTimeIsMinimum ==
    /\ [](LastRaceStored /\ LaterRacesEmpty /\ GapsFromFastest)
    /\ [][EarlierRacesKept]_vars

\* the chart of a season in which a session failed to load and, in the
\* last session, the first driver of the team was the faster of the two
C20_Witness ==
    /\ td_pc = "done"
    /\ td_session.loaded
    /\ td_session.drivers = <<1, 2, 3>>
    /\ td_session.fastest_laps = <<Some(90), Some(91), Some(91)>>
    /\ team_data["Red Bull Racing"][td_i] = Some(90)
    /\ normalized_data["Mercedes"][td_i].num > 0
    /\ \E k \in 1..Len(selected_races) : \A t \in DOMAIN team_data : team_data[t][k] = None


(***************************************************************************)
(* C21, C22: compare_teammates.                                            *)
(***************************************************************************)
\* the schedule row handled by the step
RaceStep == tm_round' = tm_round + 1

\* the step stores the row: its round and the position of every teammate in
\* the two sessions of the row are appended
RaceContributes ==
    /\ race_names' = Append(race_names, tm_round)
    /\ \A code \in 1..NumTeammates :
        /\ qualifying_data'[code] =
               Append(qualifying_data[code], tm_sessions'.quali[code].v)
        /\ race_data'[code] = Append(race_data[code], tm_sessions'.race[code].v)

\* the sessions of the row loaded and every teammate has both positions
EveryTeammateHasBoth ==
    /\ tm_sessions'.loaded
    /\ \A code \in 1..NumTeammates :
        /\ tm_sessions'.quali[code] # None
        /\ tm_sessions'.race[code] # None

\* the lists of every teammate are as long as race_names
ListsAligned ==
    \A code \in 1..Len(qualifying_data) :
        /\ Len(qualifying_data[code]) = Len(race_names)
        /\ Len(race_data[code]) = Len(race_names)

WinsRace(data, code, i) ==
    /\ \A other \in 1..(code - 1) : data[other][i] > data[code][i]
    /\ \A other \in (code + 1)..NumTeammates : data[other][i] >= data[code][i]

WinsOf(data, code) ==
    Cardinality({i \in 1..Len(race_names) : WinsRace(data, code, i)})

\* C22: the tally awards one qualifying win and one race win per stored race:
\* the qualifying wins and the race wins summed over the teammates each equal
\* len(race_names), and a race is won by the teammate with the smallest
\* position, the first listed of them when positions are equal.
C22_OneWinPerRace ==
    tm_pc = "shown" =>
        /\ SumSeq(h2h_quali) = Len(race_names)
        /\ SumSeq(h2h_race) = Len(race_names)
        /\ \A code \in 1..NumTeammates :
            /\ h2h_quali[code] = WinsOf(qualifying_data, code)
            /\ h2h_race[code] = WinsOf(race_data, code)

\* two stored races; the teammates are level in the qualifying of the first
\* and in the race of the second
C22_Witness ==
    /\ tm_pc = "shown"
    /\ qualifying_data = <<<<2, 2>>, <<2, 1>>>>
    /\ race_data = <<<<1, 2>>, <<2, 2>>>>
    /\ h2h_quali = <<1, 1>>
    /\ h2h_race = <<2, 0>>


(***************************************************************************)
(* C23, C24: plot_testing_pace.                                            *)
(***************************************************************************)
\* the laps around lap n that follow one another without a gap
RunOf(lap_numbers, n) ==
    {m \in lap_numbers :
        \A x \in (IF m < n THEN m ELSE n)..(IF m < n THEN n ELSE m) :
            x \in lap_numbers}

\* C23: the laps of a driver, sorted by lap number, are split at every gap
\* greater than 1: every stint kept is a whole run of at least 3 laps with
\* consecutive lap numbers, a lap is in at most one kept stint, and a lap is
\* in a kept stint exactly when its run has 3 laps or more, so that shorter
\* runs are dropped, the final run and a run that ends at a gap included.
C23_StintsAreRunsOfThree ==
    \A d \in DOMAIN tp_stints :
        LET lap_numbers == testing_laps[d]
            kept == tp_stints[d]
        IN  /\ \A i \in 1..Len(kept) :
                /\ Len(kept[i]) >= 3
                /\ \A k \in 1..(Len(kept[i]) - 1) : kept[i][k + 1] = kept[i][k] + 1
                /\ Range(kept[i]) = RunOf(lap_numbers, kept[i][1])
            /\ \A i, j \in 1..Len(kept) :
                i < j => /\ Range(kept[i]) \cap Range(kept[j]) = {}
                         /\ kept[i][1] < kept[j][1]
            /\ \A n \in lap_numbers :
                (\E i \in 1..Len(kept) : n \in Range(kept[i]))
                    <=> Cardinality(RunOf(lap_numbers, n)) >= 3

\* lap 1 is a run that ends at a gap, laps 3 to 5 are kept, lap 7 is a final
\* run of one lap
C23_Witness ==
    /\ tp_pc = "shown"
    /\ testing_laps["VER"] = {1, 3, 4, 5, 7}
    /\ "VER" \in DOMAIN tp_stints
    /\ tp_stints["VER"] = << <<3, 4, 5>> >>

\* C24: the 'Stint Analysis' tab is computed for exactly the driver codes
\* entered in the dialog (the drivers argument of the call), whichever
\* drivers the 'Lap Count' tab shows.
C24_StintsForEnteredDrivers ==
    /\ tp_pc \in {"stints", "shown"} => tp_drivers = entered_drivers
    /\ \A d \in DOMAIN tp_stints : d \in Range(entered_drivers)


(***************************************************************************)
(* C25: perform_export.                                                    *)
(***************************************************************************)
FracLeq(a, b) == a.num * b.den <= b.num * a.den

\* a file of a table was written only with its checkbox selected and rows in
\* the table
WrittenAsSelected ==
    \A k \in 1..Len(ex_written) :
        ex_written[k] \in Range(ExportKeys) =>
            /\ ex_written[k] \in export_vars
            /\ OptionData(ex_session, ex_written[k]) = "rows"

\* a car data file was written only for a driver of the drivers argument
\* whose fastest lap exists and has car data with rows
CarDataForSelectedDrivers ==
    /\ \A k \in 1..Len(ex_written) :
        \/ ex_written[k] \in Range(ExportKeys)
        \/ \E d \in Range(ex_drivers) : ex_written[k] = CarDataKey(d)
    /\ \A d \in Range(ExportDriverCodes) :
        CarDataKey(d) \in Range(ex_written) =>
            /\ "car_data" \in export_vars
            /\ d \in Range(ex_drivers)
            /\ ex_session.car[d] = "rows"

ProgressInUnit ==
    /\ progress_var.den > 0
    /\ 0 <= progress_var.num
    /\ progress_var.num <= progress_var.den

\* the step in which the lookup of a driver's car data raises
CarDataRaised ==
    /\ ex_pc = "car_data"
    /\ ex_i' = ex_i + 1
    /\ ex_session.car[ex_drivers[ex_i]] = "raises"

\* a lookup of car data raises in the running export
CarDataRaisesInRun ==
    /\ "car_data" \in export_vars
    /\ \E d \in Range(ex_drivers) : ex_session.car[d] = "raises"

\* the step that ends a run of perform_export
RunEnds == ex_pc \in {"collect", "export"} /\ ex_pc' = "ready"

RunCompletes ==
    /\ RunEnds
    /\ export_status' = "Export complete"
    /\ progress_var' = Frac(1, 1)

RunFails ==
    /\ RunEnds
    /\ export_status' = "Error during export"
    /\ progress_var' = progress_var

\* C25 as stated: a file is written only for a selected table with rows, car
\* data only for the selected drivers with a fastest lap; the progress value
\* never decreases and stays within [0, 1]; progress 1.0 with 'Export
\* complete' is set only when no exception occurred, and any exception leaves
\* the progress at or below its last value and shows 'Error during export'.
C25_ProgressNeverDecreases ==
    /\ [](WrittenAsSelected /\ CarDataForSelectedDrivers /\ ProgressInUnit)
    /\ [][/\ FracLeq(progress_var, progress_var')
          /\ RunEnds => RunCompletes \/ RunFails
          /\ RunCompletes => ~CarDataRaisesInRun
          /\ CarDataRaised =>
                /\ export_status' = "Error during export"
                /\ FracLeq(progress_var', progress_var)]_vars

\* C25, amended: a file is written only for a selected table with rows, car
\* data only for the selected drivers whose fastest lap has car data; a
\* lookup of car data that raises is reported by its own status and skips the
\* driver only; the progress stays within [0, 1] and does not decrease after
\* the first file of a run, but is not reset when a run starts; a run ends
\* either with progress 1.0 and 'Export complete', or, when an exception
\* reached the outer handler, with the progress unchanged and 'Error during
\* export'.
C25_ExportAsSelected ==
    /\ [](WrittenAsSelected /\ CarDataForSelectedDrivers /\ ProgressInUnit)
    /\ [][/\ ex_written # <<>> => FracLeq(progress_var, progress_var')
          /\ RunEnds => RunCompletes \/ RunFails
          /\ RunCompletes =>
                \A k \in 1..Len(export_items) :
                    HasRows(export_items[k].data)
                        <=> export_items[k].key \in Range(ex_written)
          /\ CarDataRaised =>
                /\ export_status' = "Error getting car data"
                /\ ex_pc' = "car_data"
                /\ UNCHANGED <<progress_var, export_items>>]_vars

\* the second export: the lookup for VER raised, the file of the laps is
\* written and the progress is below the 1.0 a complete export leaves
C25_Witness ==
    /\ ex_runs = 2
    /\ ex_pc = "export"
    /\ ex_session.car["VER"] = "raises"
    /\ ex_drivers = <<"VER", "HAM">>
    /\ "car_data" \in export_vars
    /\ ex_written = <<"laps">>
    /\ FracLeq(progress_var, Frac(1, 2))


(***************************************************************************)
(* C26: the winner's own delta, checked under SpecWinnerDelta.             *)
(***************************************************************************)
PositiveLaps == SelectSeq(wd_laps, IsPositive)

\* every lap time of the winner is positive or missing, and one is positive
PositiveOrMissing ==
    /\ \A i \in 1..Len(wd_laps) : IsPositive(wd_laps[i]) \/ IsNaN(wd_laps[i])
    /\ PositiveLaps # <<>>

\* the total of the winner's positive lap times as the code adds them up
WinnerTotal == FloatCumsum(PositiveLaps)[Len(PositiveLaps)]

\* the reference is the quotient of the total by the number of positive laps,
\* rounded to the nearest value: it is off by half a spacing at most
ReferenceIsMean ==
    IF PositiveLaps # <<>>
    THEN /\ ~IsNaN(wd_reference)
         /\ 2 * Abs(wd_reference.v * Len(PositiveLaps) - WinnerTotal.v)
                <= Ulp(WinnerTotal.v, Len(PositiveLaps)) * Len(PositiveLaps)
    ELSE wd_reference = FloatDiv(wd_race_time, TotalLaps)

\* the winner's line was computed
WinnerPlotted == wd_pc = "done" /\ wd_delta # <<>>

====
